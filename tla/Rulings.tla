------------------------------ MODULE Rulings ------------------------------
(***************************************************************************)
(* A duty officer's ruling and the gate it has to pass (harness/           *)
(* duty_gate.py, called by gate_ruling of harness/duty_route.py).  A ruling*)
(* is a record of what the gate looks at; how each field is spelt is left  *)
(* out, a field that is there but malformed is a value of its own.         *)
(***************************************************************************)
EXTENDS Naturals

RulingClasses == {"retryable", "fixable", "terminal"}

\* What may come back: "none" is an answer that is no JSON object, or no answer at all.
Ruling == [class : RulingClasses \cup {"illegal", "none"},
           foreign : BOOLEAN,                            \* keys off the whitelist
           evidence : {"lines", "nolines", "missing"},
           hint : {"absent", "text", "malformed"},
           confidence : {"high", "below_theta", "illegal"}]

\* The reasons for which the gate refuses it.
Reasons(r) ==
  IF r.class = "none" THEN {"FREE_TEXT_REJECTED"}
  ELSE {reason \in {"OFF_WHITELIST_KEYS", "ILLEGAL_CLASS", "EVIDENCE_MISSING",
                    "EVIDENCE_NO_LINE_NUMBERS", "FIX_HINT_CLASS_ILLEGAL",
                    "FIX_HINT_ILLEGAL", "CONFIDENCE_ILLEGAL", "CONFIDENCE_BELOW_THETA"} :
          \/ reason = "OFF_WHITELIST_KEYS" /\ r.foreign
          \/ reason = "ILLEGAL_CLASS" /\ r.class \notin RulingClasses
          \/ reason = "EVIDENCE_MISSING" /\ r.evidence = "missing"
          \/ reason = "EVIDENCE_NO_LINE_NUMBERS" /\ r.evidence = "nolines"
          \/ reason = "FIX_HINT_CLASS_ILLEGAL" /\ r.hint # "absent" /\ r.class # "fixable"
          \/ reason = "FIX_HINT_ILLEGAL" /\ r.hint = "malformed"
          \/ reason = "CONFIDENCE_ILLEGAL" /\ r.confidence = "illegal"
          \/ reason = "CONFIDENCE_BELOW_THETA" /\ r.confidence = "below_theta"}

Gate(r, enforce) ==
  IF Reasons(r) # {} THEN "DEAD_LETTER"
  ELSE IF enforce THEN "VALID" ELSE "RECORDED_NOT_ENFORCED"

\* The event the packet gets: the ruling's own, or duty_terminal for one that was refused.
gate_ruling(r, enforce) ==
  IF Gate(r, enforce) = "DEAD_LETTER" THEN "duty_terminal"
  ELSE CASE r.class = "retryable" -> "duty_retryable"
         [] r.class = "fixable" -> "duty_fixable"
         [] r.class = "terminal" -> "duty_terminal"
=============================================================================
