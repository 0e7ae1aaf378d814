------------------------------ MODULE ShareUrl ------------------------------
(***************************************************************************)
(* Operations on what a share URL points to (services/bridge_share_url.py).*)
(* The client first asks for a validation or a dry run and later has the   *)
(* same request executed.  Both decide about it on their own: one function *)
(* may refuse what the other lets through, or name another path.           *)
(*                                                                         *)
(* A request is a record                                                   *)
(*   conn       "unknown", "plain" (no share URLs) or "sharing"            *)
(*   share      the path its share URL stands for, or Broken               *)
(*   override, legacy    connection_path_override and its older name       *)
(*   op         the operation                                              *)
(*   destShare  the destination's share URL, likewise                      *)
(*   dest       destination_path_override                                  *)
(*   file, auth whether a file name and credentials are given              *)
(* A path is given, Absent, or Blank: a text that is empty once it is      *)
(* decoded.  Failures are told apart by their code only.                   *)
(***************************************************************************)
EXTENDS Call

CONSTANTS Paths, Broken, Blank

ASSUME ShareConstantsOK ==
  /\ {Broken, Absent, Blank} \cap Paths = {}
  /\ Broken # Absent /\ Absent # Blank /\ Blank # Broken

Operations == {"list", "stat", "download", "copy", "move", "mkdir", "delete", "upload"}

ShareRequest ==
  [conn : {"unknown", "plain", "sharing"}, share : Paths \cup {Broken},
   override : Paths \cup {Absent, Blank}, legacy : Paths \cup {Absent, Blank},
   op : Operations \cup {"other"},
   destShare : Paths \cup {Broken, Absent}, dest : Paths \cup {Absent, Blank},
   file : BOOLEAN, auth : BOOLEAN]

Failure(code) == [ok |-> FALSE, code |-> code]
Unless(fails, code, rest) == IF fails THEN Failure(code) ELSE rest

(* resolve_connection_path_override: one of the two names, or both alike.  *)
Conflict(q) == /\ Given(q.override) /\ Given(q.legacy)
               /\ q.override # q.legacy
Override(q) == FirstOf(q.override, q.legacy)

(* resolve_share_url: where a share URL leads, or why it leads nowhere.    *)
Shared(q, url) ==
  CASE q.conn # "sharing"               -> Failure("NOT_SUPPORTED")
    [] q.conn = "sharing" /\ url = Broken -> Failure("BAD_PATH")
    [] OTHER                            -> [ok |-> TRUE, path |-> url]

(* The path operated on: the override's if there is one, else the URL's.   *)
Source(q) == IF Given(Override(q)) THEN Override(q) ELSE Shared(q, q.share).path

NeedsDestination(q) == q.op \in {"copy", "move"}
TakesDestination(q) == q.op \in {"copy", "move", "upload"}

(* What is told about a request that goes through.                         *)
Plan(q, dest) == [ok |-> TRUE, op |-> q.op, path |-> Source(q), dest |-> dest,
                  from |-> IF Given(Override(q)) THEN "override" ELSE "share_url"]

-----------------------------------------------------------------------------
(* The destination: an override that is not blank, else a share URL that   *)
(* resolves, else what the caller says (rest).                             *)
WithDestination(q, rest) ==
  IF Given(q.dest)
  THEN Unless(q.dest = Blank, "BAD_PATH", Plan(q, q.dest))
  ELSE IF Given(q.destShare)
  THEN LET to == Shared(q, q.destShare) IN
       Unless(~to.ok, to.code, Plan(q, to.path))
  ELSE rest

(* browse_share_url with execute: the operation that is called at last.    *)
Mut_Execute(q) ==
  LET from == Shared(q, q.share) IN
  Unless(Conflict(q), "BAD_PATH",
  Unless(~from.ok, from.code,
  Unless(Override(q) = Blank, "BAD_PATH",
  Unless(~q.auth, "ACCESS_DENIED",
  IF NeedsDestination(q) THEN WithDestination(q, Failure("BAD_PATH"))
  ELSE IF q.op = "upload"
  THEN WithDestination(q, Plan(q, Source(q)))
  ELSE IF q.op \in Operations THEN Plan(q, Absent)
  ELSE Failure("NOT_SUPPORTED")))))
Execute(q) ==
  LET from == Shared(q, q.share) IN
  Unless(Conflict(q), "BAD_PATH",
  Unless(~from.ok, from.code,
  Unless(Override(q) = Blank, "BAD_PATH",
  Unless(~q.auth, "ACCESS_DENIED",
  IF NeedsDestination(q) THEN WithDestination(q, Failure("BAD_PATH"))
  ELSE IF q.op = "upload"
  THEN Unless(~q.file, "BAD_PATH", WithDestination(q, Plan(q, Source(q))))
  ELSE IF q.op \in Operations THEN Plan(q, Absent)
  ELSE Failure("NOT_SUPPORTED")))))

(* validate_browse_share_url: checked in another order, and the file name  *)
(* last of all.                                                            *)
Validate(q) ==
  LET from == Shared(q, q.share)
      plan == IF NeedsDestination(q) THEN WithDestination(q, Failure("BAD_PATH"))
              ELSE IF q.op = "upload" THEN WithDestination(q, Plan(q, Source(q)))
              ELSE Plan(q, Absent)
  IN
  Unless(Conflict(q), "BAD_PATH",
  Unless(~from.ok, from.code,
  Unless(Override(q) = Blank, "BAD_PATH",
  Unless(q.op \notin Operations, "NOT_SUPPORTED",
  Unless(~plan.ok, plan.code,
  Unless(q.op = "upload" /\ ~q.file, "BAD_PATH", plan))))))

(* browse_share_url without execute: the override is settled first and     *)
(* handed on under its new name.                                           *)
DryRun(q) ==
  Unless(Conflict(q), "BAD_PATH",
         Validate([q EXCEPT !.override = Override(q), !.legacy = Absent]))

-----------------------------------------------------------------------------
(* A validation tells what the execution will do: it succeeds just when    *)
(* the execution, once there are credentials, reaches the operation, and   *)
(* names the same operation and paths.  Otherwise both give the same code, *)
(* except that an upload without a file name may be refused for that first.*)
DryRunTells ==
  Asks("share") =>
    LET q    == call.request
        done == Execute(q)
    IN
    /\ q.auth => \/ Validate(q) = done
                 \/ q.op = "upload" /\ ~q.file /\ ~done.ok /\ ~Validate(q).ok
    /\ DryRun(q) = Validate(q)
    /\ ~q.auth => ~done.ok
=============================================================================
