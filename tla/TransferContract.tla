-------------------------- MODULE TransferContract --------------------------
(***************************************************************************)
(* What the bridge promises about one copy, move or upload, whatever the   *)
(* drivers, folders, temporary files and failures on the way: it reads     *)
(* once, at a place its source leads to, delivers what it read at most     *)
(* once, to a place its target leads to, takes what is at a place the      *)
(* source of a move leads to only after that and as its last act, and says *)
(* "ok" only when all of it happened.  CrossTransfer implements this (its  *)
(* Contract).                                                              *)
(***************************************************************************)
CONSTANTS Requests, Queries, Stores, Spots, Contents, None,
          Sources(_), Targets(_)    \* the <<repository, spot>>s of a query

VARIABLES
  file,    \* the documents in the repositories
  ask,     \* what a request was asked
  read,    \* content it read at its source, or was sent
  stored,  \* content it delivered
  taken,   \* content it took from its source
  answer   \* its answer

vars == <<file, ask, read, stored, taken, answer>>

Held(place)     == file[place[1]][place[2]]
Open(r)         == ask[r] # None /\ answer[r] = None
Moves(r)        == ask[r].op = "move"
Reply(r, a)     == answer' = [answer EXCEPT ![r] = a]
Unanswered      == UNCHANGED answer

Init ==
  /\ file \in [Stores -> [Spots -> Contents \cup {None}]]
  /\ ask = [r \in Requests |-> None]
  /\ read = [r \in Requests |-> None]
  /\ stored = [r \in Requests |-> None]
  /\ taken = [r \in Requests |-> None]
  /\ answer = [r \in Requests |-> None]

Ask(r, q) ==
  /\ ask[r] = None
  /\ ask' = [ask EXCEPT ![r] = q]
  /\ \/ Reply(r, "failed") /\ UNCHANGED read
     \/ Unanswered /\ UNCHANGED read
     \/ Unanswered /\ q.op = "upload" /\ read' = [read EXCEPT ![r] = q.content]
  /\ UNCHANGED <<file, stored, taken>>

Read(r) ==
  /\ Open(r) /\ read[r] = None
  /\ \E s \in Sources(ask[r]) :
       Held(s) # None /\ read' = [read EXCEPT ![r] = Held(s)]
  /\ UNCHANGED <<file, ask, stored, taken, answer>>

(* Under the name asked for, or under another the server chose.            *)
Deliver(r) ==
  /\ Open(r) /\ read[r] # None /\ stored[r] = None
  /\ stored' = [stored EXCEPT ![r] = read[r]]
  /\ \/ UNCHANGED file
     \/ \E t \in Targets(ask[r]) : file' = [file EXCEPT ![t[1]][t[2]] = read[r]]
  /\ Unanswered \/ Reply(r, "failed") \/ (~Moves(r) /\ Reply(r, "ok"))
  /\ UNCHANGED <<ask, read, taken>>

Take(r) ==
  /\ Open(r) /\ Moves(r)
  /\ stored[r] # None /\ taken[r] = None
  /\ \E s \in Sources(ask[r]) :
       /\ Held(s) # None
       /\ taken' = [taken EXCEPT ![r] = Held(s)]
       /\ file' = [file EXCEPT ![s[1]][s[2]] = None]
  /\ Reply(r, "ok") \/ Reply(r, "failed")
  /\ UNCHANGED <<ask, read, stored>>

(* Within one connection the server does all of it at once.                *)
Within(r) ==
  /\ Open(r) /\ read[r] = None
  /\ \E s \in Sources(ask[r]), t \in Targets(ask[r]) :
       /\ Held(s) # None /\ (Held(t) = None \/ (Moves(r) /\ t = s))
       /\ stored' = [stored EXCEPT ![r] = Held(s)]
       /\ IF Moves(r)
          THEN /\ taken' = [taken EXCEPT ![r] = Held(s)]
               /\ file' = [file EXCEPT ![s[1]][s[2]] = None, ![t[1]][t[2]] = Held(s)]
          ELSE /\ UNCHANGED taken
               /\ file' = [file EXCEPT ![t[1]][t[2]] = Held(s)]
  /\ Reply(r, "ok") \/ Reply(r, "failed")
  /\ UNCHANGED <<ask, read>>

Finish(r) ==
  /\ Open(r)
  /\ \/ Reply(r, "failed")
     \/ Reply(r, "ok") /\ stored[r] # None /\ ~Moves(r)
     \/ Reply(r, "conflict") /\ read[r] = None
     \/ Reply(r, "version_required") /\ stored[r] = None
  /\ UNCHANGED <<file, ask, read, stored, taken>>

Halt ==
  /\ answer' = [r \in Requests |-> IF Open(r) THEN "crashed" ELSE answer[r]]
  /\ UNCHANGED <<file, ask, read, stored, taken>>

(* Other clients of the repositories.                                      *)
Elsewhere ==
  /\ UNCHANGED <<ask, read, stored, taken, answer>>
  /\ \E s \in Stores, p \in Spots, c \in Contents \cup {None} :
       file' = [file EXCEPT ![s][p] = c]

Next ==
  \/ Halt \/ Elsewhere
  \/ \E r \in Requests : \/ Read(r) \/ Deliver(r) \/ Take(r)
                         \/ Within(r) \/ Finish(r)
                         \/ \E q \in Queries : Ask(r, q)

Spec == Init /\ [][Next]_vars
=============================================================================
