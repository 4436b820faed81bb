---------------------------- MODULE MCItemViews -----------------------------
(* The router's instance, with a page that may be three events behind, and  *)
(* is reloaded once.                                                        *)
EXTENDS ItemViews, TLC

CONSTANTS t1, t2, u1, u2, m1, m2, c1, s2

MCThreadOf == u1 :> t1 @@ u2 :> t2
MCTurnOf == m1 :> u1 @@ m2 :> u2 @@ c1 :> u1 @@ s2 :> u2
MCTypeOf == m1 :> "agentMessage" @@ m2 :> "agentMessage"
            @@ c1 :> "commandExecution" @@ s2 :> "webSearch"

(* The hints of the notifications the tests of the repository send.         *)
NamesThread == {{"thread"}}
NamesTurn == {{"turn"}, {"thread", "turn"}}
NamesAny == {{}, {"thread"}, {"turn"}, {"thread", "turn"}}
=============================================================================
