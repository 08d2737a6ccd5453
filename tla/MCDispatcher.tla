---------------------------- MODULE MCDispatcher ----------------------------
(* Messages a1 and a2 of one chat, a WebSocket turn w, a scheduled turn s. *)
EXTENDS DispatcherProps, TLC

CONSTANTS a1, a2, w, s, tg, ws, cron

OriginOfTurn == [t \in Turns |-> CASE t = w -> "api" [] t = s -> "schedule" [] OTHER -> "adapter"]
ChatOfTurn   == [t \in Turns |-> CASE t = w -> ws [] t = s -> cron [] OTHER -> tg]

Together == {Turns}
Apart    == {{a1, s}, {w}}
Alike    == Permutations(Engines)
=============================================================================
