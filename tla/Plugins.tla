------------------------------- MODULE Plugins -------------------------------
(***************************************************************************)
(* Packages, their activation for an agent, and the MCP connections made   *)
(* from them: crates/renoa-local/src/plugins/{store,activation,manager,    *)
(* api/dispatch}.rs and mcp/{store,process,registry}.rs.                   *)
(*                                                                         *)
(* A package is known by its digest and has one MCP server, so a package   *)
(* stands for its integration too.  A plugin identity is the digest of the *)
(* first revision an agent selected.  A catalog is known by its digest,    *)
(* which covers the endpoint and the tools: <<endpoint, version>>.         *)
(*                                                                         *)
(* Every request is run by an operation.  An operation reads without a     *)
(* lock, asks the server, and only then commits, so any other operation    *)
(* may commit in between; the process may stop and the operation be run    *)
(* again with the same identity.                                           *)
(***************************************************************************)
EXTENDS Naturals, FiniteSets

CONSTANTS Agents, Packages, Connections, Operations, Endpoints, Auths,
          MaxVersion,     \* how often a server's tools change, plus one
          MaxStops,       \* how often the process stops
          MaxEach,        \* how many operations of each kind
          Kinds,          \* the kinds of request an operation may carry
          None            \* no row, no task

VARIABLES
  endpoint,   \* endpoint[p]: the address package p's manifest names
  served,     \* served[e]: the version of the tools the server at e offers
  published,  \* package directories on disk
  installed,  \* rows of installed_plugins
  admitted,   \* rows of host_plugin_admissions
  plugins,    \* plugins[a][i]: the row of host_agent_plugins, or None
  revisions,  \* revisions[a][p]: the identity that owns revision p, or None
  receipts,   \* operations recorded in host_plugin_activation_operations
  feed,       \* feed[a]: sources of the items that say an ability was turned on
  connections,\* connections[c]: the row of mcp_connections, or None
  catalogs,   \* catalogs[c]: the digest of the stored catalog, or None
  bound,      \* rows of host_agent_mcp_connections
  requests,   \* requests[o]: what operation o asks for, or None
  tasks,      \* tasks[o]: where the running call of o is, or None
  found,      \* found[a]: the tool reference agent a was last shown, or None
  called,     \* the last tool call that was resolved, or None
  stops

library == <<published, installed, admitted>>
selection == <<plugins, revisions, receipts, feed>>
links == <<connections, catalogs, bound>>
world == <<endpoint, served>>
vars == <<world, library, selection, links, requests, tasks, found, called, stops>>

(***************************************************************************)
(* What an operation may ask for.                                          *)
(***************************************************************************)
Request(k) ==
  CASE k = "activate"   -> [kind : {k}, agent : Agents, package : Packages]
    [] k = "replace"    -> [kind : {k}, agent : Agents, plugin : Packages,
                            package : Packages, expected : Packages]
    [] k = "enable"     -> [kind : {k}, agent : Agents, plugin : Packages]
    [] k = "deactivate" -> [kind : {k}, agent : Agents, plugin : Packages]
    [] k = "add"        -> [kind : {k}, agent : Agents, package : Packages,
                            connection : Connections, auth : Auths, replace : BOOLEAN]
    [] k = "connect"    -> [kind : {k}, agent : Agents, package : Packages,
                            connection : Connections, auth : Auths, replace : BOOLEAN]
    [] k = "authorize"  -> [kind : {k}, agent : Agents, connection : Connections]

Changes == {"activate", "replace", "enable", "deactivate", "add"}
Enabling == Changes \ {"deactivate"}

\* An agent may select p's accounts: p was validated by this Host, and the
\* identity that owns p, if the agent has one, selects p and is on.
require_revision_selection(a, p) ==
  /\ p \in admitted
  /\ revisions[a][p] # None =>
       plugins[a][revisions[a][p]] = [package |-> p, enabled |-> TRUE]

Announce(a, source) == feed' = [feed EXCEPT ![a] = @ \cup {source}]

write_activation(a, i, p, on) ==
  /\ plugins' = [plugins EXCEPT ![a][i] = [package |-> p, enabled |-> on]]
  /\ revisions' = [revisions EXCEPT ![a][p] = IF @ = None THEN i ELSE @]

\* Selecting a connection of package p selects p itself when the agent never had it.
admit_connection_selection(a, p) ==
  /\ require_revision_selection(a, p)
  /\ IF revisions[a][p] # None
       THEN UNCHANGED selection
       ELSE /\ write_activation(a, p, p, TRUE)
            /\ Announce(a, <<"selection", p>>)
            /\ UNCHANGED receipts

ensure_connection(c, p, auth) ==
  connections[c] \in {None, [package |-> p, auth |-> auth]}

\* The view host_agent_enabled_mcp_connections.
enabled_connection(a, c) ==
  /\ <<a, c>> \in bound
  /\ connections[c] # None
  /\ LET p == connections[c].package
     IN p \in admitted /\ \E i \in Packages : plugins[a][i] = [package |-> p, enabled |-> TRUE]

(***************************************************************************)
(* The library of packages.                                                *)
(***************************************************************************)
load(p) == p \in installed /\ p \in published
record(p) ==
  /\ installed' = installed \cup {p}
  /\ admitted' = admitted \cup {p}

At(o, phase) == tasks[o] # None /\ tasks[o].phase = phase
Go(o, t) == tasks' = [tasks EXCEPT ![o] = t]
End(o) == Go(o, None)
Step(o, phase) == Go(o, [tasks[o] EXCEPT !.phase = phase])

\* A first call of the operation, or a replay of it after the process stopped.
Call(o) ==
  /\ tasks[o] = None
  /\ \/ /\ requests[o] = None
        /\ \E k \in Kinds : /\ Cardinality({q \in Operations : requests[q] # None
                                                      /\ requests[q].kind = k}) < MaxEach
                            /\ \E r \in Request(k) : requests' = [requests EXCEPT ![o] = r]
     \/ /\ stops > 0 /\ requests[o] # None
        /\ UNCHANGED requests
  /\ LET k == requests'[o].kind
     IN Go(o, [phase |-> CASE k = "add" -> "capture"
                           [] k \in {"connect", "authorize"} -> "preflight"
                           [] OTHER -> "read"])
  /\ UNCHANGED <<world, library, selection, links, found, called, stops>>

\* add_to_profile: a package that is published but not recorded is recovered,
\* an installed one reused, and any other source captured.  The preflight of the
\* connection comes before a captured package is published.
Capture(o) ==
  /\ At(o, "capture")
  /\ LET r == requests[o]
         preflight == r.replace \/ ensure_connection(r.connection, r.package, r.auth)
     IN \/ /\ r.package \in published \ installed
           /\ record(r.package) /\ UNCHANGED <<published, tasks>>
        \/ /\ preflight /\ load(r.package)
           /\ Step(o, "read") /\ UNCHANGED library
        \/ /\ preflight /\ published' = published \cup {r.package}
           /\ Step(o, "record") /\ UNCHANGED <<installed, admitted>>
        \/ /\ ~preflight
           /\ End(o) /\ UNCHANGED library
  /\ UNCHANGED <<world, selection, links, requests, found, called, stops>>

Record(o) ==
  /\ At(o, "record")
  /\ record(requests[o].package)
  /\ Step(o, "read")
  /\ UNCHANGED <<world, published, selection, links, requests, found, called, stops>>

(***************************************************************************)
(* change_activation.                                                      *)
(***************************************************************************)
After(o) == IF requests[o].kind = "add" THEN Step(o, "preflight") ELSE End(o)

\* The identity, revision and expected revision that the request means now.
Target(r) ==
  CASE r.kind \in {"activate", "add"} ->
         LET i == IF revisions[r.agent][r.package] = None
                    THEN r.package ELSE revisions[r.agent][r.package]
         IN [plugin |-> i, package |-> r.package, expected |-> None,
             valid |-> \/ plugins[r.agent][i] = None
                       \/ plugins[r.agent][i].package = r.package]
    [] r.kind = "replace" ->
         [plugin |-> r.plugin, package |-> r.package, expected |-> r.expected, valid |-> TRUE]
    [] r.kind \in {"enable", "deactivate"} ->
         IF plugins[r.agent][r.plugin] = None
           THEN [plugin |-> r.plugin, package |-> r.plugin, expected |-> None, valid |-> FALSE]
           ELSE LET p == plugins[r.agent][r.plugin].package
                IN [plugin |-> r.plugin, package |-> p, expected |-> p, valid |-> TRUE]

ReadActivation(o) ==
  /\ At(o, "read")
  /\ LET r == requests[o]
         t == Target(r)
     IN IF o \in receipts
          THEN After(o)
          ELSE IF t.valid /\ (r.kind \in Enabling => load(t.package))
            THEN Go(o, [phase |-> "change", target |-> t])
            ELSE End(o)
  /\ UNCHANGED <<world, library, selection, links, requests, found, called, stops>>

Unchanged(a, t) ==
  LET now == plugins[a][t.plugin]
  IN IF t.expected = None
       THEN now # None => now.package = t.package
       ELSE now # None /\ now.package = t.expected

Free(a, t) == revisions[a][t.package] \in {None, t.plugin}
Change(o) == tasks[o].target
TurnsOn(o) ==
  LET now == plugins[requests[o].agent][Change(o).plugin]
  IN requests[o].kind \in Enabling /\ (now # None => ~now.enabled)

\* The rows the transaction writes: the activation, the feed item when the
\* plugin comes on, the admission of what is on, and the receipt.
WriteChange(o, announce, admit) ==
  LET a == requests[o].agent
      t == Change(o)
  IN /\ write_activation(a, t.plugin, t.package, requests[o].kind \in Enabling)
     /\ IF announce THEN Announce(a, <<"package", o>>) ELSE UNCHANGED feed
     /\ admitted' = IF admit THEN admitted \cup {t.package} ELSE admitted
     /\ receipts' = receipts \cup {o}

\* The transaction: the operation has not been recorded meanwhile, what was
\* read still holds, and no other identity owns the revision.
change_activation(o) ==
  /\ o \notin receipts
  /\ Unchanged(requests[o].agent, Change(o))
  /\ Free(requests[o].agent, Change(o))
  /\ WriteChange(o, TurnsOn(o), requests[o].kind \in Enabling)

CommitActivation(o) ==
  /\ At(o, "change")
  /\ change_activation(o)
  /\ After(o)
  /\ UNCHANGED <<world, published, installed, links, requests, found, called, stops>>

ActivationConflicts(o) ==
  /\ At(o, "change")
  /\ o \notin receipts
  /\ \/ ~Unchanged(requests[o].agent, Change(o))
     \/ ~Free(requests[o].agent, Change(o))
  /\ End(o)
  /\ UNCHANGED <<world, library, selection, links, requests, found, called, stops>>

(***************************************************************************)
(* Connecting and authorizing.                                             *)
(***************************************************************************)
\* connect_profile_operation up to the sign-in, and authorize_profile's
\* reading of the stored connection.
Preflight(o) ==
  /\ At(o, "preflight")
  /\ LET r == requests[o]
     IN IF r.kind = "authorize"
          THEN IF /\ connections[r.connection] # None
                  /\ require_revision_selection(r.agent, connections[r.connection].package)
                 THEN Go(o, [phase |-> "discover",
                             endpoint |-> endpoint[connections[r.connection].package]])
                 ELSE End(o)
          ELSE IF /\ require_revision_selection(r.agent, r.package)
                  /\ load(r.package)
                  /\ r.replace \/ ensure_connection(r.connection, r.package, r.auth)
                 THEN Go(o, [phase |-> "discover", endpoint |-> endpoint[r.package]])
                 ELSE End(o)
  /\ UNCHANGED <<world, library, selection, links, requests, found, called, stops>>

\* from_validated_catalog: the snapshot and its digest.
Snapshot(e, version) == <<e, version>>

\* Signing in and discovery; the adapter process answers with one catalog.
Discover(o) ==
  /\ At(o, "discover")
  /\ LET e == tasks[o].endpoint
     IN Go(o, [phase |-> "commit", snapshot |-> Snapshot(e, served[e])])
  /\ UNCHANGED <<world, library, selection, links, requests, found, called, stops>>

\* The person does not sign in, the call is cancelled, or the adapter fails,
\* passes its deadline or answers something that is not one valid catalog.
DiscoveryFails(o) ==
  /\ At(o, "discover")
  /\ End(o)
  /\ UNCHANGED <<world, library, selection, links, requests, found, called, stops>>

store_catalog(c, snapshot) == catalogs' = [catalogs EXCEPT ![c] = snapshot]
Bind(a, c) == bound' = bound \cup {<<a, c>>}
\* The row of a replaced connection; the sign-in flow and receipts that go with
\* it are state of McpOAuth, which has one connection and keeps it.
replace_connection(c, p, auth) ==
  connections' = [connections EXCEPT ![c] = [package |-> p, auth |-> auth]]

commit_connection(o) ==
  LET r == requests[o]
  IN /\ ensure_connection(r.connection, r.package, r.auth) \/ r.replace
     /\ replace_connection(r.connection, r.package, r.auth)
     /\ store_catalog(r.connection, tasks[o].snapshot)
     /\ admit_connection_selection(r.agent, r.package)
     /\ Bind(r.agent, r.connection)

publish_and_enable_connection(o) ==
  LET r == requests[o]
  IN /\ connections[r.connection] # None
     /\ endpoint[connections[r.connection].package] = tasks[o].snapshot[1]
     /\ store_catalog(r.connection, tasks[o].snapshot)
     /\ admit_connection_selection(r.agent, connections[r.connection].package)
     /\ Bind(r.agent, r.connection)
     /\ UNCHANGED connections

CommitConnection(o) ==
  /\ At(o, "commit")
  /\ requests[o].kind # "authorize"
  /\ commit_connection(o)
  /\ End(o)
  /\ UNCHANGED <<world, library, requests, found, called, stops>>

CommitAuthorization(o) ==
  /\ At(o, "commit")
  /\ requests[o].kind = "authorize"
  /\ publish_and_enable_connection(o)
  /\ End(o)
  /\ UNCHANGED <<world, library, requests, found, called, stops>>

\* The transaction is refused by one of its checks and nothing is written.
CommitRefused(o) ==
  /\ At(o, "commit")
  /\ LET r == requests[o]
     IN IF r.kind = "authorize"
          THEN \/ endpoint[connections[r.connection].package] # tasks[o].snapshot[1]
               \/ ~require_revision_selection(r.agent, connections[r.connection].package)
          ELSE \/ ~r.replace /\ ~ensure_connection(r.connection, r.package, r.auth)
               \/ ~require_revision_selection(r.agent, r.package)
  /\ End(o)
  /\ UNCHANGED <<world, library, selection, links, requests, found, called, stops>>

(***************************************************************************)
(* An agent's own choice among stored connections, and its tool calls.     *)
(***************************************************************************)
enable_agent_connection(a, c) ==
  /\ catalogs[c] # None
  /\ <<a, c>> \notin bound
  /\ admit_connection_selection(a, connections[c].package)
  /\ Bind(a, c)
  /\ UNCHANGED <<world, library, connections, catalogs, requests, tasks, found, called, stops>>

disable_agent_connection(a, c) ==
  /\ <<a, c>> \in bound
  /\ bound' = bound \ {<<a, c>>}
  /\ UNCHANGED <<world, library, selection, connections, catalogs, requests, tasks,
                 found, called, stops>>

agent_tool_summaries_on(a, c) ==
  /\ enabled_connection(a, c)
  /\ found' = [found EXCEPT ![a] = [connection |-> c, digest |-> catalogs[c]]]
  /\ UNCHANGED <<world, library, selection, links, requests, tasks, called, stops>>

\* One read of the catalog answers all of it: the binding, the digest, the endpoint.
resolve_agent_tools(a, ref) ==
  /\ enabled_connection(a, ref.connection)
  /\ catalogs[ref.connection] = ref.digest
  /\ called' = [agent |-> a, reference |-> ref, package |-> connections[ref.connection].package,
                version |-> catalogs[ref.connection][2]]

Execute(a) ==
  /\ found[a] # None
  /\ resolve_agent_tools(a, found[a])
  /\ UNCHANGED <<world, library, selection, links, requests, tasks, found, stops>>

(***************************************************************************)
(* The world outside.                                                      *)
(***************************************************************************)
ServerChanges(e) ==
  /\ served[e] < MaxVersion
  /\ served' = [served EXCEPT ![e] = @ + 1]
  /\ UNCHANGED <<endpoint, library, selection, links, requests, tasks, found, called, stops>>

\* The process stops: running calls are gone, files and rows stay.
Stop ==
  /\ stops < MaxStops
  /\ \E o \in Operations : tasks[o] # None
  /\ stops' = stops + 1
  /\ tasks' = [o \in Operations |-> None]
  /\ UNCHANGED <<world, library, selection, links, requests, found, called>>

\* A Host upgraded from an older runtime has packages it has not validated.
Init ==
  /\ endpoint \in [Packages -> Endpoints]
  /\ served = [e \in Endpoints |-> 1]
  /\ installed \in SUBSET Packages
  /\ published = installed
  /\ admitted = {}
  /\ plugins = [a \in Agents |-> [i \in Packages |-> None]]
  /\ revisions = [a \in Agents |-> [p \in Packages |-> None]]
  /\ receipts = {}
  /\ feed = [a \in Agents |-> {}]
  /\ connections = [c \in Connections |-> None]
  /\ catalogs = [c \in Connections |-> None]
  /\ bound = {}
  /\ requests = [o \in Operations |-> None]
  /\ tasks = [o \in Operations |-> None]
  /\ found = [a \in Agents |-> None]
  /\ called = None
  /\ stops = 0

Next ==
  \/ \E o \in Operations :
       \/ Call(o) \/ Capture(o) \/ Record(o)
       \/ ReadActivation(o) \/ CommitActivation(o)
       \/ ActivationConflicts(o)
       \/ Preflight(o) \/ Discover(o) \/ DiscoveryFails(o)
       \/ CommitConnection(o) \/ CommitAuthorization(o) \/ CommitRefused(o)
  \/ \E a \in Agents, c \in Connections :
       \/ enable_agent_connection(a, c) \/ disable_agent_connection(a, c)
       \/ agent_tool_summaries_on(a, c)
  \/ \E a \in Agents : Execute(a)
  \/ \E e \in Endpoints : ServerChanges(e)
  \/ Stop

Spec == Init /\ [][Next]_vars

-----------------------------------------------------------------------------
\* Every row refers to rows that exist: an activation and a revision to an
\* installed package with its directory, a catalog and a binding to a
\* connection (activation/schema.rs and the foreign keys of the catalog).
TypeOK ==
  /\ admitted \subseteq installed /\ installed \subseteq published
  /\ \A a \in Agents, i \in Packages :
       /\ plugins[a][i] = None \/ plugins[a][i].package \in installed
       /\ revisions[a][i] # None => plugins[a][revisions[a][i]] # None
  /\ \A c \in Connections : connections[c] = None => catalogs[c] = None
  /\ \A b \in bound : b[1] \in Agents /\ catalogs[b[2]] # None

\* A revision has one identity for an agent: each identity selects a revision
\* it owns, so two identities never select the same one, whatever activations,
\* replacements and connection commits run against each other
\* (verify_owners and UNIQUE(agent_id, package_digest)).
OneIdentityPerRevision ==
  \A a \in Agents, i \in Packages :
    plugins[a][i] # None => revisions[a][plugins[a][i].package] = i

\* What is on was validated by this Host, so the view that hides the
\* connections of unvalidated packages never hides one that is on.
OnMeansAdmitted ==
  \A a \in Agents, i \in Packages :
    plugins[a][i] # None /\ plugins[a][i].enabled => plugins[a][i].package \in admitted

\* A stored catalog came from the server that its connection points at now,
\* even when the connection was replaced while another call was discovering.
CatalogOfConnection ==
  \A c \in Connections :
    catalogs[c] # None => catalogs[c][1] = endpoint[connections[c].package]

\* A tool call goes to the server, and uses the tools, that the reference was
\* shown with: a reference older than the catalog is refused, never redirected.
CalledAsShown ==
  called # None =>
    called.reference.digest = <<endpoint[called.package], called.version>>

\* An identity moves to another revision only by a replacement that names the
\* revision it replaces; a deactivation or an enabling that read the old
\* revision never puts it back.
MovesByReplacement ==
  \A a \in Agents, i \in Packages :
       (plugins[a][i] # None /\ plugins'[a][i].package # plugins[a][i].package) =>
         \E o \in receipts' \ receipts :
           /\ requests[o].kind = "replace"
           /\ requests[o].expected = plugins[a][i].package
           /\ requests[o].package = plugins'[a][i].package

\* What an agent turned off is turned on again only by an operation that takes
\* effect for the first time: not by a connection that was being made, not by
\* a replay of an operation that already had its effect.
OffUntilAsked ==
  \A a \in Agents, i \in Packages :
       (plugins[a][i] # None /\ plugins'[a][i].enabled # plugins[a][i].enabled) =>
         \E o \in receipts' \ receipts : requests[o].agent = a

\* Each time an agent turns an ability on, its owner's feed gets an item of its
\* own for it (ability_turned_on).
TurningOnIsAnnounced ==
  \A a \in Agents, i \in Packages :
       (/\ plugins'[a][i] # None /\ plugins'[a][i].enabled
        /\ plugins[a][i] = None \/ ~plugins[a][i].enabled)
       => feed'[a] # feed[a]
==============================================================================
