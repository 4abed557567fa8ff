---------------------------- MODULE IdentityStore ----------------------------
(***************************************************************************)
(* What the PC keeps of itself at rest: identity.enc and the key in the OS *)
(* keychain that opens it.  Cryptography is symbolic: a derived key is a   *)
(* term naming what it was derived from, and a sealed box is a term that   *)
(* opens only under the key, nonce and associated data that sealed it.     *)
(***************************************************************************)
EXTENDS Naturals

CONSTANTS
  NoKey,   \* the keychain has no entry
  NoId     \* no identity in memory

FORMAT_VERSION == 1

\* hkdf_blake2s(ikm, info): distinct inputs give distinct keys.
Hkdf(ikm, info) == [ikm |-> ikm, info |-> info]

\* The data-encryption key the file is sealed under.
Dek(kek) == Hkdf(kek, "conveyance-v1-pc-storage-dek")

\* aead::seal and aead::open: one opaque failure for every mismatch.
AeadSeal(key, nonce, plaintext, aad) ==
  [key |-> key, nonce |-> nonce, plaintext |-> plaintext, aad |-> aad]

AeadOpens(key, nonce, box, aad) ==
  box.key = key /\ box.nonce = nonce /\ box.aad = aad

\* The bytes of a complete identity.enc holding identity id.
Blob(kek, nonce, id) ==
  [form |-> "whole", version |-> FORMAT_VERSION, nonce |-> nonce,
   box |-> AeadSeal(Dek(kek), nonce, id, "")]

\* No file, and a file that std::fs::write has truncated and not yet filled.
Absent == [form |-> "absent"]
Torn   == [form |-> "torn"]

\* KeyProvider::get.  A provider that is down is an error, never "absent".
KeychainGet(keychain, locked) ==
  IF locked THEN [err |-> "keychain_unavailable"]
            ELSE [err |-> "none", kek |-> keychain]

\* StoredIdentity::load, its checks in the order the code makes them.
Load(file, keychain, locked) ==
  LET got == KeychainGet(keychain, locked) IN
  IF file.form = "absent" THEN [err |-> "not_found"]
  ELSE IF file.form = "torn" THEN [err |-> "corrupt"]
  ELSE IF file.version # FORMAT_VERSION THEN [err |-> "version"]
  ELSE IF got.err # "none" THEN [err |-> got.err]
  ELSE IF got.kek = NoKey THEN [err |-> "key_missing"]
  ELSE IF ~AeadOpens(Dek(got.kek), file.nonce, file.box, "") THEN [err |-> "decrypt"]
  ELSE [err |-> "none", id |-> file.box.plaintext]

=============================================================================
