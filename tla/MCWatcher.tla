------------------------------ MODULE MCWatcher ------------------------------
(***************************************************************************)
(* Two scripts, with attributes that are missing, of the wrong type or     *)
(* smaller than a second.                                                  *)
(***************************************************************************)
EXTENDS WatcherProperties, TLC

CONSTANTS minutely, hourly, off, never, f1, f2

Number(n) == [type |-> "int", value |-> n]
Tenths(n) == [type |-> "float", value |-> n]
Bool(b) == [type |-> "bool", value |-> b]
String(s) == [type |-> "string", value |-> s]
Strings(s) == [type |-> "strings", value |-> s]

MCInfo ==
    minutely :> ("period" :> Tenths(605) @@ "roles" :> Strings({"r1"})
                 @@ "enable" :> String("no"))
    @@ hourly :> ("period" :> Number(3600) @@ "timeout" :> Number(10)
                  @@ "roles" :> String("r1") @@ "queue" :> String("q"))
    @@ off :> ("period" :> Number(60) @@ "enable" :> Bool(FALSE))
    @@ never :> ("period" :> Tenths(5))
=============================================================================
