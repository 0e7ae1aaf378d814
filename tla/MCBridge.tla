------------------------------ MODULE MCBridge ------------------------------
(* The smaller parts of the bridge in one run.  They do not interact: call *)
(* tells which of them a behaviour is about, the requests of RawUpload, a  *)
(* query of EdocatPaging, or one call of a function without a state.       *)
EXTENDS RawUpload, EdocatPaging, ShareUrl, ConfigFiles, PathRules, ErrorRules, AuthRules

CONSTANTS r1, r2, ta, tb, u1, u2, one, other

-----------------------------------------------------------------------------
(* RawUpload: two requests, in every combination of these.                 *)
None3 == <<None, None, None>>
Sends(o, b, i, n) == [op |-> o, bases |-> b, inline |-> i, size |-> n]
Sent == <<Sends("upload", <<ta, tb, None>>, None, 2), Sends("upload", None3, u1, 3),
          Sends("upload", None3, u1, 4), Sends("list", <<ta, ta, tb>>, u2, 0),
          Sends("stat", None3, u1, 0), Sends("list", None3, u1, 0)>>
SentQueries == ToSet(Sent)

Combined ==
  /\ manager[ta] \in {None, u2} /\ manager[tb] \in {None, u1}
  /\ \E i \in DOMAIN Sent, j \in DOMAIN Sent :
       i <= j /\ query[r1] = Sent[i] /\ query[r2] = Sent[j]

(* EdocatPaging: folders of up to five nodes and every habit.              *)
FolderNodes == <<1, 2, 3, 4, 5>>
Telling == SUBSET {"size", "total", "next"}
AllHabits == [cap : {1, 2, 3}, tells : Telling, kind : {"honest"}]
             \cup [cap : {2}, tells : Telling, kind : {"repeats", "junk"}]

-----------------------------------------------------------------------------
(* The calls.                                                              *)
SharePaths == {one, other}
ShareCalls == [fn : {"share"}, request : {s \in ShareRequest :
                               s.op \in {"list", "copy", "upload", "other"} /\ s.conn # "plain"}]

Texts(a) == {EmptyMap} \cup {[k \in {"a"} |-> x] : x \in {NoText, a}}
Values(a) == {Text(NoText), Text(a)} \cup {Section(t) : t \in Texts(a)}
Roots(a) == {EmptyMap} \cup {[k \in {"k"} |-> v] : v \in Values(a)}
Plain(s) == File(s, Absent)
Driven(s) == Plain([k \in {"driver"} |-> Text("d")] @@ s)
Locals(a) == {Absent} \cup {Plain(s) : s \in Roots(a)}
OneText(a) == Plain([k \in {"k"} |-> Text(a)])
Maybe(a) == {Absent, OneText(a)}
Keyed(a) == File([k \in {"k"} |-> Text("0")], [k \in {"k"} |-> Text(a)])

Layers == [fn : {"config"},
           driver : [old : {Absent}, oldLocal : {Absent},
                     new : {Plain(s) : s \in Roots("1")}, newLocal : Locals("2")],
           connection : [oldLocal : {Absent}, new : {Driven(s) : s \in Roots("3")},
                         newLocal : Locals("4")]]
Places == [fn : {"config"},
           driver : [old : Maybe("1"), oldLocal : Maybe("2"),
                     new : Maybe("3") \cup {Keyed("3")}, newLocal : Maybe("4")],
           connection : [oldLocal : Maybe("5"), newLocal : Maybe("6") \cup {Keyed("6")},
                         new : {Absent, Driven(EmptyMap), Driven(OneText("7").root)}]]

Names == {"d", "a"}
Folders == UNION {[1..n -> Names] : n \in 0..3}
PathCalls == [fn : {"path"}, root : {<<>>, <<"d">>, <<"d", "a">>}, folder : Folders,
              names : {<<"a", "d">>, <<"d">>}, style : {"own", "folder"}]
LibraryPaths == {c \in PathCalls : IsPrefix(c.root, c.folder)}

Classes == {"auth", "notfound", "version", "operation", "precheck", "value", "other"}
Raised == [class : Classes, status : {0, 401}]
Causes == [class : {"other", "operation"}, status : {0, 404, 500}]
ErrorCalls ==
  [fn : {"error"}, op : {"stat", "list"},
   chain : {<<e>> : e \in Raised} \cup {<<e, c>> : e \in Raised, c \in Causes}
           \cup {<<e, c, d>> : e \in Raised, c \in Causes, d \in Causes}]

Settings == [mode : {"none", "credentials", "winuser"}, required : BOOLEAN \cup {Absent},
             scheme : {Absent, "none", "bearer"}, id : {Absent}, target : {"t"}, base : {Absent}]
Bringing == [id : {Absent}, target : {Absent}, user : {Absent, "u"}, password : {Absent, "w"},
             token : {Absent, "k"}, win : {<<>>}]
Finding == {Absent} \cup [user : {Absent, "U"}, password : {Absent, "W"}, token : {Absent, "K"}]
Naming == [fn : {"auth"}, driver : {"webdav"}, default : {"basic"}, found : {Absent},
           config : [mode : {"credentials"}, required : {TRUE}, scheme : {Absent},
                     id : {Absent, "i"}, target : {Absent, "t"}, base : {Absent, "t", "b"}],
           request : [id : {Absent, "i", "r"}, target : {Absent, "t", "s"}, user : {Absent},
                      password : {Absent}, token : {Absent},
                      win : {<<>>, <<"n">>, <<"dn", "n">>}]]
Serving(d, schemes) == [fn : {"auth"}, driver : {d}, default : schemes, found : Finding,
                        config : Settings, request : Bringing]
AuthCalls == Naming \cup Serving("webdav", {"basic", "bearer"})
             \cup Serving("edocat", {"basic"}) \cup Serving("alfresco", {"ticket"})

AllCalls == ShareCalls \cup Layers \cup Places \cup LibraryPaths \cup ErrorCalls \cup AuthCalls

-----------------------------------------------------------------------------
Uploads == [fn |-> "requests"]
Query_  == [fn |-> "paging"]

(* The two state machines where they are not looked at.                    *)
NoUploads == query = [r \in Requests |-> Sent[1]] /\ manager = [t \in Targets |-> None]
NoPages ==
  /\ folder = <<>> /\ opened = <<>> /\ got = <<>> /\ signatures = {}
  /\ habit = [cap |-> 1, tells |-> {}, kind |-> "honest"]
  /\ page = 0 /\ size = PageSize /\ paging = "done"
  /\ edits = [added |-> 0, removed |-> 0]

MCInit ==
  /\ \/ call = Uploads /\ NoPages
     \/ call = Query_ /\ NoUploads /\ PagingInit
     \/ call \in AllCalls /\ NoUploads /\ NoPages
  /\ Init
  /\ call = Uploads => Combined

Requesting == call = Uploads /\ UNCHANGED <<pagingVars, call>>
Paging     == call = Query_ /\ UNCHANGED <<vars, call>>

MCNext == (Requesting /\ Next) \/ (Paging /\ PagingNext)

everything == <<vars, pagingVars, call>>
MCSpec ==
  /\ MCInit /\ [][MCNext]_everything
  /\ \A r \in Requests : WF_everything(Requesting /\ Step(r))
  /\ WF_everything(Paging /\ AskPage)

(* No request and no query goes on for ever, whatever others do.           *)
EveryoneIsAnswered == RequestsEnd /\ PagingEnds
=============================================================================
