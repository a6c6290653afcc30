------------------------------ MODULE Commands ------------------------------
(***************************************************************************)
(* The changes that write records: v2's commands (v2/cmd/swhurl-v2 and     *)
(* v2/orchestration: create, edit, remove, promote, team, deploy), and the *)
(* pull requests the console makes of them (tools/swhurl/console/merge.py  *)
(* ACTIONS).  A command takes a tree and answers the tree it leaves, or    *)
(* Nothing when it refuses.                                                *)
(***************************************************************************)
EXTENDS Records

Guarded(ok, T) == IF ok THEN T ELSE Nothing

ReadableAt(T, i) == i \in Present(T) /\ T[<<"release", i>>] # Nothing /\ T[<<"app", i[1]>>] # Nothing

(* No instance calls, admits or receives from itself, and a change changes something. *)
Changes(T, i, line, to) ==
    /\ (line \in {"calls", "allows"} => i[1] \notin to)
    /\ (line = "subs" => \A s \in to : s[1] # i[1])
    /\ to # T[<<line, i>>]

(* One named change to one record, and the folder it compiles to with the documents git holds. *)
Edit(T, i, line, to) ==
    LET U == Put(T, [p \in {<<line, i>>} |-> to]) IN
    Guarded(ReadableAt(T, i) /\ Changes(T, i, line, to) /\ CompileOK(U, i), Compiled(U, {i}))

Environments(T, a) == {i \in Present(T) : i[1] = a}

(* A team change reads every environment of the app, and refuses an app with none. *)
EachReadable(T, a) == Environments(T, a) # {} /\ \A i \in Environments(T, a) : ReadableAt(T, i)

(* The team is the app's: its record changes with every environment's folder. *)
SetTeam(T, a, team) ==
    LET U == Put(T, [p \in {<<"app", a>>} |-> team]) IN
    Guarded(/\ T[<<"app", a>>] \notin {Nothing, team}
       /\ EachReadable(T, a)
       /\ \A i \in Environments(T, a) : CompileOK(U, i),
       Compiled(U, Environments(T, a)))

(* faulty: only the environment a creation makes must be absent. *)
AbsentHere(T, a) == T[<<"release", <<a, "staging">>>>] = Nothing

AppAbsent(T, a) == T[<<"app", a>>] = Nothing /\ \A i \in Instances : i[1] = a => T[<<"release", i>>] = Nothing

(* A new app's staging records, from the image it publishes; nothing is compiled yet. *)
Create(T, a, image, team) ==
    LET i == <<a, "staging">> IN
    Guarded(AppAbsent(T, a),
       Put(T, [p \in {<<"app", a>>} \cup (({"release"} \cup Lines) \X {i}) |->
                   CASE p[1] = "app" -> team
                     [] p[1] \in {"release", "select"} -> image
                     [] p[1] \in {"calls", "allows", "subs"} -> {}]))

(* A removal is refused while git's resolution connects a caller or a subscriber to the instance. *)
Depended(T, i) ==
    \/ Callers(T, i) # {}
    \/ \E j \in Instances : /\ j[2] = i[2] /\ T[<<"received", j>>] # Nothing
                            /\ \E s \in T[<<"received", j>>] : s[1] = i[1]

(* An app's record goes with its last environment. *)
LastEnvironment(T, i) == Environments(T, i[1]) = {i}

Gone(T, i) == (({"release"} \cup Lines \cup Folder) \X {i})
                \cup (IF LastEnvironment(T, i) THEN {<<"app", i[1]>>} ELSE {})

(* Whole folders go; a path that is not there is no failure. *)
Removed(T, paths) == Put(T, [p \in paths |-> Nothing])

RemoveInstance(T, i) == Guarded(ReadableAt(T, i) /\ ~Depended(T, i), Removed(T, Gone(T, i)))

(* faulty: the image a promotion selects is the newest the app published. *)
PromoteNewest(T, a) ==
    LET new == CHOOSE m \in Images : m.app = a /\ \A o \in Images : o.app = a => o.run <= m.run IN
    Guarded({<<a, "staging">>, <<a, "prod">>} \subseteq Present(T),
       Compiled(Put(T, [p \in {"release", "select"} \X {<<a, "prod">>} |-> new]), {<<a, "prod">>}))

(* A promotion reads both environments whole. *)
BothReadable(T, a) ==
    \A e \in {"staging", "prod"} : <<a, e>> \in Instances /\ ReadableAt(T, <<a, e>>)

(* Production's release becomes the one staging selects, and nothing else of production changes. *)
Promote(T, a) ==
    LET from == <<a, "staging">>
        to == <<a, "prod">>
        U == Put(T, [p \in {"release", "select"} \X {to} |-> T[<<"release", from>>]])
    IN  Guarded(/\ BothReadable(T, a)
           /\ T[<<"select", from>>] = T[<<"release", from>>]
           /\ CompileOK(U, to),
           IF T[<<"select", to>>] = T[<<"release", from>>] THEN T ELSE Compiled(U, {to}))

(* A team that a record names or grants is not removed. *)
Unused(T, team) == \A i \in Present(T) : T[<<"app", i[1]>>] # team /\ team \notin T[<<"allows", i>>]

AddTeam(T, team) == Guarded(team \notin Registered(T), Put(T, [p \in {<<"team", team>>} |-> TRUE]))

RemoveTeam(T, team) ==
    Guarded(team \in Registered(T) /\ Unused(T, team), Put(T, [p \in {<<"team", team>>} |-> Nothing]))

-----------------------------------------------------------------------------
(* Delivery: one staging instance to the newest image published.           *)

Newest(published, a) == CHOOSE m \in published : m.app = a /\ \A o \in published : o.app = a => o.run <= m.run

(* An image may not change its instance's kind, nor add or drop its database. *)
Accept(image, current) == image.kind = current.kind /\ image.database = current.database

Selected(T, i, image) == Put(T, [p \in {"release", "select"} \X {i} |-> image])

Takes(T, i, image) ==
    /\ ReadableAt(T, i)
    /\ (image # T[<<"release", i>>] => Accept(image, T[<<"release", i>>]))
    /\ \E S \in {Selected(T, i, image)} : CompileOK(S, i)

(* The instances of a run that move: one that refuses, or whose registry cannot be read, is held. *)
Moving(T, published, unread) ==
    {i \in Staging \cap Present(T) : i \notin unread /\ Takes(T, i, Newest(published, i[1]))}

SelectedAll(T, published, moving) ==
    [p \in Paths |-> IF p[1] \in {"release", "select"} /\ p[2] \in moving THEN Newest(published, p[2][1]) ELSE T[p]]

(* The files a delivery writes, in order; a write that fails leaves only the ones before it. *)
Written == <<"release", "select", "unit", "policy">>

Torn(T, S, i, files) ==
    [p \in Paths |-> IF p[1] \in {Written[n] : n \in files + 1 .. Len(Written)} /\ p[2] = i THEN T[p] ELSE S[p]]

(* make v2-users after a delivery: refused when an event subscription has become an error. *)
WithUsers(T) == Guarded(Resolves(T), Put(T, [p \in {<<"users", "platform">>} |-> Users(T)]))

-----------------------------------------------------------------------------
(* Console pull requests.  A request is a record: do names the action.     *)

(* A setting a creation's form chose is written by an edit of its own; one it left empty is not. *)
Chosen(T, i, line, to) == IF T = Nothing \/ to = {} THEN T ELSE Edit(T, i, line, to)

CreateChosen(T, image, request) ==
    LET i == <<request.app, "staging">> IN
    Chosen(Chosen(Create(T, request.app, image, request.team), i, "calls", request.calls), i, "subs", request.subs)

(* The records an action's commands write, before the render that ends them. *)
Changed(T, published, request) ==
    CASE request.do = "new" ->
            IF \E m \in published : m.app = request.app
            THEN CreateChosen(T, Newest(published, request.app), request) ELSE Nothing
      [] request.do = "edit" -> Edit(T, request.inst, request.line, request.to)
      [] request.do = "team" -> SetTeam(T, request.app, request.team)
      [] request.do = "remove" -> RemoveInstance(T, request.inst)
      [] request.do = "promote" -> Promote(T, request.app)
      [] request.do = "team-add" -> AddTeam(T, request.team)
      [] request.do = "team-remove" -> RemoveTeam(T, request.team)

Registry(request) == request.do \in {"team-add", "team-remove"}

(* Whose records and folders an action's pull request may carry, beside the platform's files. *)
Carries(request) ==
    CASE request.do = "new" -> {<<request.app, "staging">>}
      [] request.do \in {"edit", "remove"} -> {request.inst}
      [] request.do \in {"team", "promote"} -> {i \in Instances : i[1] = request.app}
      [] Registry(request) -> {}

AppOf(request) == CASE request.do \in {"edit", "remove"} -> {request.inst[1]}
                    [] Registry(request) -> {}
                    [] request.do \in {"new", "team", "promote"} -> {request.app}

(* faulty: a pull request leaves the platform's whole files to the bots. *)
OwnedFolders(request) ==
    IF Registry(request) THEN {"team"} \X Teams
    ELSE ({"app"} \X AppOf(request)) \cup (({"release"} \cup Lines \cup Folder) \X Carries(request))
           \cup (Shared \X Instances)

(* faulty: and the compiled folders too.                                    *)
OwnedRecords(request) ==
    IF Registry(request) THEN {"team"} \X Teams
    ELSE ({"app"} \X AppOf(request)) \cup (({"release"} \cup Lines) \X Carries(request))
           \cup (Shared \X Instances) \cup Whole

Owned(request) ==
    IF Registry(request) THEN {"team"} \X Teams
    ELSE ({"app"} \X AppOf(request)) \cup (({"release"} \cup Lines \cup Folder) \X Carries(request))
           \cup (Shared \X Instances) \cup Whole

(* What a request whose commands left U proposes from main at a commit: Nothing when a command, or the  *)
(* render, refuses, or when nothing changes.                                                             *)
Proposed(T, U, request, revision) ==
    LET R == IF U = Nothing \/ Registry(request) THEN U ELSE Guarded(Renderable(U), RenderAt(U, revision))
        P == [p \in Paths |-> IF p \in Owned(request) THEN R[p] ELSE T[p]]
    IN  IF R = Nothing \/ P = T THEN Nothing ELSE P

=============================================================================
