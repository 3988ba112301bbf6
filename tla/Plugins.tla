------------------------------ MODULE Plugins -------------------------------
(***************************************************************************)
(* The plugins of a server.  Which it should have is a list in the         *)
(* settings tree; a change of the list makes checkPlugins put actions at   *)
(* the front of the pending ones that load and unload until the plugins    *)
(* are those of the list.  A plugin may be asked for by the beginning of   *)
(* its name; once it is loaded, its entry in the list is corrected, which  *)
(* flags it for removal in passing.                                        *)
(***************************************************************************)
EXTENDS Naturals, Sequences, FiniteSets, Functions

CONSTANTS
    FullNames,          \* of the plugins in the search path
    Names,              \* that may be asked for
    Matches,            \* for every name the plugins whose names begin with it
    Broken,             \* plugins whose module cannot be loaded
    Unwilling,          \* plugins whose init throws
    MaxRequests         \* bound: requests queued at once

ASSUME PluginsAssumption ==
    /\ IsFiniteSet(Names) /\ FullNames \subseteq Names
    /\ Matches \in [Names -> SUBSET FullNames]
    /\ \A p \in FullNames : p \in Matches[p]
    /\ Broken \subseteq FullNames /\ Unwilling \subseteq FullNames
    /\ MaxRequests \in Nat

VARIABLES
    acting,             \* handlePendingActions runs
    pending,            \* Server::pendingActions
    list,               \* the leaf server:plugins
    loaded,             \* the keys of Server::plugins
    branches,           \* the children of the tree's branch plugins
    failure             \* what ended the server: none, an assertion, or that a
                        \* plugin's branch was there already

vars == <<acting, pending, list, loaded, branches, failure>>

Add(name) == [type |-> "add", name |-> name]
Remove(name) == [type |-> "remove", name |-> name]
Flags == [type : {"add", "remove"}, name : Names]

\* ClientChangeSettingActions for the list: "+name", "-name" and "0"
Requests == [type : {"enlist", "strike"}, name : Names] \cup [type : {"clear"}]

\* What the list should be after a request that the leaf does not refuse
Refused(request) ==
    \/ request.type = "enlist" /\ request.name \in list
    \/ request.type = "strike" /\ request.name \notin list
NewList(request) ==
    CASE request.type = "enlist" -> list \cup {request.name}
      [] request.type = "strike" -> list \ {request.name}
      [] request.type = "clear"  -> {}

\* The orders in which the members of a set may be visited
Listings(S) == Bijection(1 .. Cardinality(S), S)

\* checkPlugins: what it may put in front of the pending actions
Removals(have, wanted) == {Remove(p) : p \in have \ wanted}
Additions(have, wanted) == {Add(n) : n \in wanted \ have}
CheckPlugins(have, wanted) ==
    {removals \o additions : removals \in Listings(Removals(have, wanted)),
                             additions \in Listings(Additions(have, wanted))}

-----------------------------------------------------------------------------
Init ==
    /\ acting = FALSE /\ pending = <<>>
    /\ list = {} /\ loaded = {} /\ branches = {}
    /\ failure = "none"

\* handleClientMessages, for requests of admins
Submit == \E request \in Requests :
    /\ ~acting /\ Len(pending) < MaxRequests
    /\ pending' = Append(pending, request)
    /\ UNCHANGED <<acting, list, loaded, branches, failure>>

StartActing ==
    /\ ~acting /\ acting' = TRUE
    /\ UNCHANGED <<pending, list, loaded, branches, failure>>

ActionsDone ==
    /\ acting /\ failure = "none" /\ pending = <<>> /\ acting' = FALSE
    /\ UNCHANGED <<pending, list, loaded, branches, failure>>

Acts(action) == acting /\ failure = "none" /\ pending # <<>> /\ Head(pending) = action

\* The action that acts is still in the list when others are put in front of it,
\* and is erased afterwards
Requeue(front) == pending' = front \o Tail(pending)

Refuse == \E request \in Requests :
    /\ Acts(request) /\ Refused(request)
    /\ Requeue(<<>>)
    /\ UNCHANGED <<acting, list, loaded, branches, failure>>

ChangeList == \E request \in Requests :
    /\ Acts(request) /\ ~Refused(request)
    /\ \E front \in CheckPlugins(loaded, NewList(request)) : Requeue(front)
    /\ list' = NewList(request)
    /\ UNCHANGED <<acting, loaded, branches, failure>>

\* Nothing or too much is found, or the module cannot be loaded
NotFound(name) == \A p \in FullNames : Matches[name] = {p} => p \in Broken

\* A name whose plugin was not loaded is taken off the list
TakeOffList(name) ==
    IF name \in list
    THEN /\ \E front \in CheckPlugins(loaded, list \ {name}) : Requeue(front)
         /\ list' = list \ {name}
         /\ UNCHANGED failure
    ELSE failure' = "assertion" /\ UNCHANGED <<pending, list>>

LoadFails == \E name \in Names :
    /\ Acts(Add(name)) /\ name \notin loaded /\ NotFound(name)
    /\ TakeOffList(name)
    /\ UNCHANGED <<acting, loaded, branches>>

\* The plugin that a name finds, before its constructor runs
Found(name, p) ==
    Acts(Add(name)) /\ name \notin loaded /\ Matches[name] = {p} /\ p \notin Broken

\* The constructor has added the branch when init throws, and nobody removes it
InitThrows == \E name \in Names, p \in Unwilling :
    /\ Found(name, p) /\ p \notin branches
    /\ branches' = branches \cup {p}
    /\ TakeOffList(name)
    /\ UNCHANGED <<acting, loaded>>

\* addPlugin: "tried to add plugin branch of existing name"
BranchExists == \E name \in Names, p \in FullNames :
    /\ Found(name, p) /\ p \in branches
    /\ failure' = "branch"
    /\ UNCHANGED <<acting, pending, list, loaded, branches>>

\* Mutant: the plugin is kept under the name that was asked for
LoadsAsAsked(name, p) ==
    /\ Found(name, p) /\ p \notin Unwilling /\ p \notin branches
    /\ loaded' = loaded \cup {name} /\ branches' = branches \cup {p}
    /\ UNCHANGED acting

\* The plugin with the branch it adds to the tree
Loads(name, p) ==
    /\ Found(name, p) /\ p \notin Unwilling /\ p \notin branches
    /\ loaded' = loaded \cup {p} /\ branches' = branches \cup {p}
    /\ UNCHANGED acting

LoadNamed == \E p \in FullNames :
    /\ Loads(p, p)
    /\ Requeue(<<>>)
    /\ UNCHANGED <<list, failure>>

\* Mutant: the removal that the correction flags is left in place
CorrectAndRemove(name, p) ==
    LET struck == list \ {name}
    IN  \E first \in CheckPlugins(loaded', struck) :
        \E second \in CheckPlugins(loaded', struck \cup {p}) :
          /\ Requeue(second \o first)
          /\ list' = struck \cup {p} /\ UNCHANGED failure

\* The entry is struck, the removal that this flags is dropped, and the full
\* name is entered
CorrectName(name, p) ==
    LET struck == list \ {name}
    IN  \E first \in CheckPlugins(loaded', struck) :
          IF name \in list /\ p \notin struck /\ first # <<>> /\ Head(first) = Remove(p)
          THEN \E second \in CheckPlugins(loaded', struck \cup {p}) :
                 /\ Requeue(second \o Tail(first))
                 /\ list' = struck \cup {p} /\ UNCHANGED failure
          ELSE failure' = "assertion" /\ UNCHANGED <<pending, list>>

LoadOther == \E name \in Names, p \in FullNames :
    p # name /\ Loads(name, p) /\ CorrectName(name, p)

\* ~Plugin removes the branch
RemovePlugin == \E p \in FullNames :
    /\ Acts(Remove(p)) /\ p \in loaded
    /\ loaded' = loaded \ {p} /\ branches' = branches \ {p}
    /\ failure' = IF p \in branches THEN failure ELSE "assertion"
    /\ Requeue(<<>>)
    /\ UNCHANGED <<acting, list>>

Stopped == failure # "none" /\ UNCHANGED vars

Next ==
    \/ Submit \/ StartActing \/ ActionsDone
    \/ Refuse \/ ChangeList
    \/ LoadFails \/ InitThrows \/ BranchExists \/ LoadNamed \/ LoadOther
    \/ RemovePlugin
    \/ Stopped
Spec == Init /\ [][Next]_vars

-----------------------------------------------------------------------------
\* The type of every variable.
TypeOK ==
    /\ acting \in BOOLEAN /\ failure \in {"none", "assertion", "branch"}
    /\ pending \in Seq(Flags \cup Requests)
    /\ list \subseteq Names /\ loaded \subseteq FullNames /\ branches \subseteq FullNames

\* The flags in a queue, which come before all requests, each once, ...
Flagged(queue) == {i \in DOMAIN queue : queue[i] \in Flags}
FlagSet(queue) == {queue[i] : i \in Flagged(queue)}
FlagsFirst(queue) ==
    /\ \A i \in Flagged(queue) : \A j \in 1 .. i : j \in Flagged(queue)
    /\ \A i, j \in Flagged(queue) : queue[i] = queue[j] => i = j

\* ... and what it takes to make some plugins those that are wanted
Changes(have, wanted) == Removals(have, wanted) \cup Additions(have, wanted)

\* The flags in the queue are at any time what it takes to make the plugins those
\* of the list; when the actions are done, they are those of the list; and a
\* plugin that is loaded has its branch.  So nothing that the correction of a name
\* or a failure to load leaves behind unloads a plugin that is wanted, keeps one
\* that is not, or is taken by the next correction for the flag of its own: the
\* assertions of AddPluginAction::act hold.
ListComesTrue ==
    /\ failure # "assertion"
    /\ failure = "none" =>
         /\ FlagsFirst(pending)
         /\ FlagSet(pending) = Changes(loaded, list)
         /\ acting \/ list = loaded
         /\ loaded \subseteq branches
=============================================================================
