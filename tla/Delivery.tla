------------------------------ MODULE Delivery ------------------------------
(***************************************************************************)
(* What migrate_file promises its caller, whatever happens in its stages:  *)
(* it works for a while and then, once, either ends with an error or hands *)
(* over one text under a state that the text warrants.                     *)
(***************************************************************************)
EXTENDS Validation

CONSTANTS Texts, None

VARIABLES phase, text, tag

vars == <<phase, text, tag>>

(***************************************************************************)
(* Text t may be delivered under state s.  FallbackUnsafe promises         *)
(* nothing; every other state promises a text that is no stub, as long as  *)
(* the configured score is above the score a stub can have.                *)
(***************************************************************************)
Warranted(t, s) ==
  /\ s \in {"Validated", "CompilesUnsafe", "CompilesLowScore", "NearlyCompiles",
            "FallbackUnsafe"}
  /\ s \in {"Validated", "CompilesUnsafe", "CompilesLowScore"} => t.compiles
  /\ s = "Validated" => t.score >= MinScore \/ t.score >= 80
  /\ s = "CompilesUnsafe" => t.unsafe > 0 /\ t.score >= 50
  /\ s = "CompilesLowScore" => t.score < 80
  /\ s = "NearlyCompiles" => ~t.compiles /\ t.score >= 50
  /\ MinScore > StubScoreCap /\ s # "FallbackUnsafe" => t.substance

Init == phase = "working" /\ text = None /\ tag = "Pending"

Deliver ==
  /\ phase = "working"
  /\ phase' = "delivered"
  /\ text' \in Texts
  /\ tag' \in Tags
  /\ Warranted(text', tag')

Fail ==
  /\ phase = "working"
  /\ phase' = "failed"
  /\ UNCHANGED <<text, tag>>

Next == Deliver \/ Fail

Safety == Init /\ [][Next]_vars

=============================================================================
