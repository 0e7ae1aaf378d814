----------------------------- MODULE ErrorRules -----------------------------
(***************************************************************************)
(* How a failure reaches the client (services/bridge_errors.py,            *)
(* app/routes/bridge.py _status_code_for_wfx, core/errors.py): an exception*)
(* with the exceptions that caused it becomes an error code, and for a stat*)
(* the HTTP status of the server behind the bridge.                        *)
(*                                                                         *)
(* A chain is a sequence of [class, status], the exception first and then  *)
(* its causes; status is 0 where there is none.                            *)
(***************************************************************************)
EXTENDS Call, SequencesExt

(* core/errors.py: the classes an exception of a class belongs to.         *)
Bases(class) ==
  {class} \cup CASE class = "version"  -> {"operation"}
                 [] class = "precheck" -> {"value"}
                 [] OTHER              -> {}

(* map_exception asks for the classes in this order.                       *)
Mut_Cases == << <<"auth", "ACCESS_DENIED">>, <<"notfound", "NOT_SUPPORTED">>,
                <<"operation", "INTERNAL_ERROR">>, <<"version", "ACCESS_DENIED">>,
                <<"precheck", "INTERNAL_ERROR">>, <<"value", "BAD_PATH">> >>
Cases == << <<"auth", "ACCESS_DENIED">>, <<"notfound", "NOT_SUPPORTED">>,
            <<"version", "ACCESS_DENIED">>, <<"operation", "INTERNAL_ERROR">>,
            <<"precheck", "INTERNAL_ERROR">>, <<"value", "BAD_PATH">> >>

(* _upstream_status_code: the first status along the chain, or 0.          *)
UpstreamStatus(chain) ==
  LET k == SelectInSeq(chain, LAMBDA e : e.status > 0) IN
  IF k = 0 THEN 0 ELSE chain[k].status

(* map_exception: the first class that fits decides.  The status goes along*)
(* for failed operations and failed authentication only.                   *)
Code(chain) ==
  LET k == SelectInSeq(Cases, LAMBDA c : c[1] \in Bases(Head(chain).class)) IN
  IF k = 0 THEN "INTERNAL_ERROR" ELSE Cases[k][2]

PassesStatus(chain) ==
  LET k == SelectInSeq(Cases, LAMBDA c : c[1] \in Bases(Head(chain).class)) IN
  k # 0 /\ Cases[k][1] \in {"auth", "operation"}

(* _status_code_for_wfx: only a stat asks for the server's status.         *)
HttpStatus(chain, op) ==
  IF op = "stat" /\ PassesStatus(chain) /\ UpstreamStatus(chain) > 0
  THEN UpstreamStatus(chain) ELSE 200

-----------------------------------------------------------------------------
(* A failure keeps its meaning whatever caused it: a denial, and only a    *)
(* denial (a document that needs a version choice is one), is told as one; *)
(* a bad path is never the server's fault; and a stat answers with the     *)
(* status nearest to the failure, every other operation with 200.          *)
FailuresKeepMeaning ==
  Asks("error") =>
    LET chain   == call.chain
        class   == Head(chain).class
        nearest == {k \in DOMAIN chain : /\ chain[k].status > 0
                                         /\ \A j \in 1..(k - 1) : chain[j].status = 0}
        told    == HttpStatus(chain, call.op)
    IN
    /\ Code(chain) = "ACCESS_DENIED" <=> class \in {"auth", "version"}
    /\ Code(chain) = "BAD_PATH" <=> class = "value"
    /\ Code(chain) = "NOT_SUPPORTED" <=> class = "notfound"
    /\ call.op # "stat" => told = 200
    /\ call.op = "stat" /\ class \in {"auth", "operation"} =>
         \A k \in nearest : told = chain[k].status
    /\ class = "version" \/ nearest = {} => told = 200
=============================================================================
