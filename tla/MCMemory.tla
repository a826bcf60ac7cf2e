------------------------------ MODULE MCMemory ------------------------------
(***************************************************************************)
(* An instance of MemoryDelivery for TLC.  Handlers "v1" and "v2" take two *)
(* versions of one event type; version 2 reads what version 1 wrote, not   *)
(* the reverse.  Each listens to a channel of its own and publishes: "v2"  *)
(* to the channel its events come from.  "odd" has an unsupported          *)
(* idempotency mode, "lax" lacks what the strict App asks for.             *)
(***************************************************************************)
EXTENDS MemoryDelivery, TLC

CONSTANTS t1, t2, t3, u

Declared(cls, channel, dlq, mode, strictOK) ==
  [event_cls |-> cls, name |-> cls, channel |-> channel, dlq |-> dlq,
   mode |-> mode, declared |-> strictOK]

MCHandlers == {"v1", "v2", "odd", "lax"}
MCDecl == [h \in MCHandlers |->
  CASE h = "v1" -> Declared("T1", "a", TRUE, "event_id", TRUE)
    [] h = "v2" -> Declared("T2", "b", FALSE, "event_id", TRUE)
    [] h = "odd" -> Declared("U", "b", TRUE, "content_hash", TRUE)
    [] h = "lax" -> Declared("U", "a", TRUE, "event_id", FALSE)]

MCClasses == {"T1", "T2", "U"}
MCTypeOf == [k \in MCClasses |-> IF k = "U" THEN "U" ELSE "T"]
MCReads == {<<"T1", "T1">>, <<"T2", "T1">>, <<"T2", "T2">>, <<"U", "U">>}

MCMade == [e \in {t1, t2, t3, u} |->
  CASE e = t1 -> [cls |-> "T1", channel |-> "a"]
    [] e \in {t2, t3} -> [cls |-> "T2", channel |-> "a"]
    [] e = u -> [cls |-> "U", channel |-> "b"]]
MCEmits == [h \in MCHandlers |->
  CASE h = "v1" -> {u} [] h = "v2" -> {t2, t3} [] OTHER -> {}]

MCChannels == {"a", "b", "a.dlq", "b.dlq"}
MCDlqOf == ("a" :> "a.dlq") @@ ("b" :> "b.dlq")
=============================================================================
