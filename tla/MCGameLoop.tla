----------------------------- MODULE MCGameLoop -----------------------------
(* Small instances of GameLoop for TLC. *)
EXTENDS GameLoop, TLC

CONSTANTS t1, t2, web, dns, w1, w2, d1

\* Two services of which one has no flag slot at all, or two slots.
OneSlotService == w1 :> web
TwoSlotService == w1 :> web @@ w2 :> web
=============================================================================
