------------------------------- MODULE MCMain -------------------------------
EXTENDS Main

CONSTANTS a, b, c, d, t1, t2

MCApps == {a, b, c, d}
TwoApps == {a, b}
MCTeams == {t1, t2}
MCOrder == <<<<a, "prod">>, <<a, "staging">>, <<b, "staging">>, <<c, "staging">>, <<d, "staging">>>>
TwoOrder == <<<<a, "prod">>, <<a, "staging">>, <<b, "staging">>>>
MCInitial == {<<a, "prod">>, <<a, "staging">>, <<b, "staging">>}

MCLinks == {<<<<b, "staging">>, a>>}
NoLinks == {}

image(app, run, kind, port, events, database) ==
    [app |-> app, run |-> run, kind |-> kind, port |-> port, events |-> events, database |-> database]

(* a publishes an event and is called; its second image publishes one more, its third is a worker. *)
(* b keeps a database, so it holds a proxy port; c and d, which are not there yet, would each need one too. *)
MCImages == {image(a, 1, "web", 80, {"e"}, FALSE), image(a, 2, "web", 80, {"e", "f"}, FALSE),
             image(a, 3, "worker", 0, {"e", "f"}, FALSE), image(b, 1, "web", 80, {}, TRUE),
             image(c, 1, "web", 80, {}, TRUE), image(d, 1, "web", 80, {}, TRUE)}

staging(x) == <<x, "staging">>

MCRequests ==
    {[do |-> "edit", inst |-> staging(b), line |-> "calls", to |-> {a}],
     [do |-> "edit", inst |-> staging(a), line |-> "allows", to |-> {t1}],
     [do |-> "edit", inst |-> staging(b), line |-> "subs", to |-> {<<a, "e">>}],
     [do |-> "remove", inst |-> staging(b)],
     [do |-> "remove", inst |-> staging(a)],
     [do |-> "new", app |-> a, team |-> t1, calls |-> {}, subs |-> {}],
     [do |-> "new", app |-> b, team |-> t1, calls |-> {}, subs |-> {}],
     [do |-> "new", app |-> c, team |-> t1, calls |-> {}, subs |-> {}],
     [do |-> "new", app |-> d, team |-> t1, calls |-> {}, subs |-> {}],
     [do |-> "promote", app |-> a],
     [do |-> "team", app |-> b, team |-> t2],
     [do |-> "team-remove", team |-> t2], [do |-> "team-add", team |-> t2]}

(* b receives a's event; a's second image drops it for another; b's second image changes nothing but itself. *)
HeldImages == {image(a, 1, "web", 80, {"e"}, FALSE), image(a, 2, "web", 80, {"f"}, FALSE),
               image(b, 1, "web", 80, {}, FALSE), image(b, 2, "web", 80, {}, FALSE)}
HeldRequests == {[do |-> "edit", inst |-> staging(b), line |-> "subs", to |-> {<<a, "e">>}]}
=============================================================================
