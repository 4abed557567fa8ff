----------------------------- MODULE TierPolicy -----------------------------
(***************************************************************************)
(* The phone's tier policy (conveyance-protocol/src/policy.rs).  A text is *)
(* a sequence of characters; "*" is the only character a pattern gives a   *)
(* meaning to, so a handful of characters stand for all of them.           *)
(***************************************************************************)
EXTENDS Integers, Sequences, SequencesExt

CONSTANT DESTINATION_HISTORY_LIMIT

ASSUME HistoryAssumption == DESTINATION_HISTORY_LIMIT \in Nat

\* Seeded fault: trailing stars are not skipped.
NothingLeft(pat, p) == p > Len(pat)

\* What is left of the pattern at the end of the value is stars.
TrailingStars(pat, p) == \A i \in p..Len(pat) : pat[i] = "*"

\* One turn of the loop.  p and v are the next positions of the pattern and of
\* the value, star the last "*" taken (0: none), retry where the value was when
\* it last gave one character more to that star.
GlobTurn(pat, val, g) ==
  IF g.v > Len(val) \/ ~g.ok THEN g
  ELSE IF g.p <= Len(pat) /\ pat[g.p] = val[g.v] THEN [g EXCEPT !.p = @ + 1, !.v = @ + 1]
  ELSE IF g.p <= Len(pat) /\ pat[g.p] = "*"
  THEN [g EXCEPT !.p = @ + 1, !.star = g.p, !.retry = g.v]
  ELSE IF g.star # 0 THEN [g EXCEPT !.p = g.star + 1, !.v = g.retry + 1, !.retry = @ + 1]
  ELSE [g EXCEPT !.ok = FALSE]

\* A turn moves on in the pattern or gives the star one character more, so this
\* many turns end the loop.
GlobTurns(pat, val) == (Len(val) + 1) * (Len(pat) + 2)
GlobStart == [p |-> 1, v |-> 1, star |-> 0, retry |-> 1, ok |-> TRUE]
GlobEnd(pat, val) ==
  LET turn[k \in 0 .. GlobTurns(pat, val)] ==
        IF k = 0 THEN GlobStart ELSE GlobTurn(pat, val, turn[k - 1])
  IN  turn[GlobTurns(pat, val)]

glob_matches(pat, val) ==
  GlobEnd(pat, val).ok /\ TrailingStars(pat, GlobEnd(pat, val).p)

\* A rule: a pattern or NoPattern for each of the three texts, and a tier.
NoPattern == <<"-">>
RuleTexts == {"service", "method", "endpoint"}

validate(rules) ==
  \A i \in DOMAIN rules : /\ rules[i].required_tier \in 1..3
                          /\ \E f \in RuleTexts : rules[i][f] # NoPattern

Matches(rule, req) ==
  \A f \in RuleTexts : rule[f] = NoPattern \/ glob_matches(rule[f], req[f])

\* The method in any case of its letters.
IsDelete(method) == method \in {<<"DELETE">>, <<"delete">>}

\* evaluate: the reasons that call for tier 3; without one it is tier 2.
Reasons(rules, req, history) ==
  (IF IsDelete(req.method) THEN {"delete_method"} ELSE {})
  \cup (IF \E i \in DOMAIN history : /\ i <= DESTINATION_HISTORY_LIMIT
                                     /\ history[i].service = req.service
                                     /\ history[i].endpoint = req.endpoint
        THEN {} ELSE {"novel_destination"})
  \cup (IF \E i \in DOMAIN rules : Matches(rules[i], req) /\ rules[i].required_tier = 3
        THEN {"configured_rule"} ELSE {})

evaluate(rules, req, history) == IF Reasons(rules, req, history) = {} THEN 2 ELSE 3
=============================================================================
