------------------------------- MODULE Routes -------------------------------
(***************************************************************************)
(* Registration (sugaar.go, group.go, profile.go): the calls of App.Use,   *)
(* Group, Group.Use and Handle with which a program sets up its App before *)
(* it serves, and the chains of middleware that they make.                 *)
(*                                                                         *)
(* A script is the sequence of these calls.  Groups are named; group ""    *)
(* stands for the App itself, so App.Group is Group on it and App.Handle   *)
(* is Handle on it.  Of a path the route it leads to is told apart, not    *)
(* its text.                                                               *)
(***************************************************************************)
EXTENDS Naturals, Sequences, SequencesExt

TopLevel == ""

(* What a program can register.                                            *)
Middleware ==
  {"requestid", "cors", "timeout", "auth", "basicauth", "authorize", "gzip"}

Registration == [op : {"pprof"}, auth : BOOLEAN]
   \cup [op : {"use"}, mws : Seq(Middleware)]
   \cup [op : {"group"}, group : STRING, parent : STRING, mws : Seq(Middleware)]
   \cup [op : {"groupuse"}, group : STRING, mws : Seq(Middleware)]
   \cup [op : {"handle"}, group : STRING, route : STRING]

Calls(script, op) == {k \in DOMAIN script : script[k].op = op}

Made(script, k, group) ==
  \E g \in Calls(script, "group") : g < k /\ script[g].group = group

(* A group is made once, before it is used.  The mux panics if a route is  *)
(* registered again, pprof's included.                                     *)
WellFormed(script) ==
  /\ script \in Seq(Registration)
  /\ \A k \in Calls(script, "group") :
       /\ script[k].group # TopLevel /\ ~Made(script, k, script[k].group)
       /\ script[k].parent = TopLevel \/ Made(script, k, script[k].parent)
  /\ \A k \in Calls(script, "groupuse") : Made(script, k, script[k].group)
  /\ \A k \in Calls(script, "handle") :
       /\ script[k].group = TopLevel \/ Made(script, k, script[k].group)
       /\ script[k].route # "pprof"
       /\ \A j \in Calls(script, "handle") :
            script[j].route = script[k].route => j = k

(* New: recover and requestLog are the first of App.mws.                   *)
NewApp == [app |-> <<"recover", "log">>,
           groups |-> [g \in {TopLevel} |-> << >>],
           routes |-> [r \in {} |-> << >>]]

Put(f, x, v) == [y \in DOMAIN f \cup {x} |-> IF y = x THEN v ELSE f[y]]

(* mountPprof: with Options.PprofAuth the routes of pprof run behind Auth; *)
(* without it the mux has them alone (see Pipeline!MuxAnswers).            *)
MountPprof(a, call) ==
  IF call.auth THEN [a EXCEPT !.routes = Put(@, "pprof", <<"pprofauth">>)]
  ELSE a

(* App.Use: the chain is built anew, also for routes that are there.       *)
Use(a, call) == [a EXCEPT !.app = @ \o call.mws]

(* App.Group and Group.Group copy the middleware the parent has by now.    *)
MakeGroup(a, call) ==
  [a EXCEPT !.groups = Put(@, call.group, @[call.parent] \o call.mws)]

GroupUse(a, call) == [a EXCEPT !.groups[call.group] = @ \o call.mws]

(* Mutant of HandleRoute: chain stops after the first middleware.          *)
HandleRouteOutermost(a, call) ==
  LET mws == a.groups[call.group]
  IN  [a EXCEPT !.routes = Put(@, call.route,
                               SubSeq(mws, 1, IF mws = << >> THEN 0 ELSE 1))]

(* App.Handle and Group.Handle: the middleware the group has by now is     *)
(* wrapped around the handler.                                             *)
HandleRoute(a, call) ==
  [a EXCEPT !.routes = Put(@, call.route, a.groups[call.group])]

Register(a, call) ==
  CASE call.op = "pprof"    -> MountPprof(a, call)
    [] call.op = "use"      -> Use(a, call)
    [] call.op = "group"    -> MakeGroup(a, call)
    [] call.op = "groupuse" -> GroupUse(a, call)
    [] call.op = "handle"   -> HandleRoute(a, call)

-----------------------------------------------------------------------------
(* What was declared, without reference to how chains are built.           *)

(* The first n calls have given the layer to a group: each call of a trail *)
(* names it for its group, or makes the group from one that has got it by  *)
(* an earlier call of the trail.                                           *)
GroupGets(script, n, group, layer) ==
  \E trail \in SUBSET {k \in Calls(script, "group") \cup Calls(script, "groupuse") :
                         k <= n} :
    /\ \A k \in trail :
         \/ layer \in ToSet(script[k].mws)
         \/ /\ script[k].op = "group"
            /\ \E j \in trail : j < k /\ script[j].group = script[k].parent
    /\ \E k \in trail : script[k].group = group

(* A layer guards a route if the App has it, by whatever call, or if the   *)
(* route's group got it before the route was made.                         *)
Guards(script, route, layer) ==
  \/ \E k \in Calls(script, "use") : layer \in ToSet(script[k].mws)
  \/ \E h \in Calls(script, "handle") :
       script[h].route = route /\ GroupGets(script, h, script[h].group, layer)
  \/ /\ route = "pprof" /\ layer = "pprofauth"
     /\ \E k \in Calls(script, "pprof") : script[k].auth
=============================================================================
