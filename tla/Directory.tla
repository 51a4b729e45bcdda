------------------------------ MODULE Directory ------------------------------
(***************************************************************************)
(* Who is who in a workspace: the table of agent identities (identity.rs), *)
(* the requests that register and renew an agent, and the ones that read   *)
(* the directory of live agents to list it or to find the recipient of new *)
(* work (herdr-a2a-broker api.rs).  Each takes several steps, with Herdr,  *)
(* the database and the broker's lock in between.                          *)
(*                                                                         *)
(* A process is a pane and a harness session.  A canonical name is the     *)
(* slug of the role a process had first and a random ending; SlugOf is     *)
(* canonical_slug, which maps what cannot be a slug to "agent".  A         *)
(* registration is its process and the working directory of its pane; its  *)
(* lease time is the matter of Broker.                                     *)
(*                                                                         *)
(* Herdr is external: it renames panes, moves them, opens and closes them  *)
(* as it likes.  Sights are the answers it may give for a pane.            *)
(***************************************************************************)
EXTENDS FiniteSets

CONSTANTS Panes, Sessions, Labels, SlugOf, Endings, Sights, Requests

Slugs == {SlugOf[l] : l \in Labels}
Names == Slugs \X Endings
Processes == Panes \X Sessions

ASSUME DirectoryConstants ==
    /\ SlugOf \in [Labels -> STRING]
    /\ "agent" \in Labels /\ SlugOf["agent"] = "agent"
    /\ Sights \subseteq [kind : {"pi", "other", "closed"}, label : Labels,
                         here : BOOLEAN, path : STRING]

VARIABLES
    sight,       \* pane -> what Herdr says of it
    identities,  \* the table agent_identities: process -> [name, slug, role]
    live,        \* registrations_by_agent: name -> [process, path]
    request,     \* request -> what it is at
    work         \* recipients that were resolved: [name, process] (history)

directoryVars == <<sight, identities, live, request, work>>

\* What it does and where it is, for which process; the role and the path
\* Herdr has told; the name; the registrations still to look up, and the
\* agents found.
NoRequest == [op |-> "none", pc |-> "idle", process |-> <<>>, role |-> "", path |-> "",
              name |-> <<>>, left |-> {}, found |-> {}]

RequestGoes(q, r) == request' = [request EXCEPT ![q] = r]
RequestEnds(q) == RequestGoes(q, NoRequest)
RequestAt(q, pc) == request[q].pc = pc

-----------------------------------------------------------------------------
(* register and renew.                                                     *)

BeginRegister(q, k) ==
    /\ RequestAt(q, "idle")
    /\ RequestGoes(q, [NoRequest EXCEPT !.op = "register", !.pc = "verify", !.process = k])
    /\ UNCHANGED <<sight, identities, live, work>>

\* authenticate: the registration is current.
BeginRenew(q, n) ==
    /\ RequestAt(q, "idle")
    /\ RequestGoes(q, [NoRequest EXCEPT !.op = "renew", !.pc = "verify", !.process = live[n].process,
                                        !.path = live[n].path, !.name = n])
    /\ UNCHANGED <<sight, identities, live, work>>

\* A name whose slug says nothing is the role "agent".
RoleOf(label) == IF SlugOf[label] = "agent" THEN "agent" ELSE label

Verified(q, s) ==
    /\ s.kind = "pi" /\ s.here
    /\ request[q].op = "renew" => s.path = request[q].path

Verify(q) ==
    /\ RequestAt(q, "verify")
    /\ LET s == sight[request[q].process[1]]
       IN  IF Verified(q, s)
           THEN RequestGoes(q, [request[q] EXCEPT !.pc = "resolve", !.role = RoleOf(s.label), !.path = s.path])
           ELSE RequestEnds(q)
    /\ UNCHANGED <<sight, identities, live, work>>

\* The handler goes on with the name it is told: a renewal if that is the name
\* it renews, a registration if its client did not expect another.
Identified(q, n) ==
    \/ /\ request[q].op = "renew" => n = request[q].name
       /\ RequestGoes(q, [request[q] EXCEPT !.pc = "admit", !.role = "", !.name = n])
    \/ /\ request[q].op = "renew" => n # request[q].name
       /\ RequestEnds(q)

Taken(n) == \E k \in DOMAIN identities : identities[k].name = n

\* The row is there: its role is brought up to date.
ResolveKnown_Mutant(q) ==           \* the name follows the role
    LET k == request[q].process
        slug == SlugOf[request[q].role]
    IN  /\ RequestAt(q, "resolve") /\ k \in DOMAIN identities
        /\ \E x \in Endings :
             /\ ~Taken(<<slug, x>>)
             /\ identities' = [identities EXCEPT ![k] = [name |-> <<slug, x>>, slug |-> slug, role |-> request[q].role]]
             /\ Identified(q, <<slug, x>>)
        /\ UNCHANGED <<sight, live, work>>

ResolveKnown(q) ==
    LET k == request[q].process
    IN  /\ RequestAt(q, "resolve") /\ k \in DOMAIN identities
        /\ identities' = [identities EXCEPT ![k].role = request[q].role]
        /\ Identified(q, identities[k].name)
        /\ UNCHANGED <<sight, live, work>>

\* It is not: the first suffix drawn that gives a new name is taken.
ResolveNew(q) ==
    LET k == request[q].process
        slug == SlugOf[request[q].role]
    IN  /\ RequestAt(q, "resolve") /\ k \notin DOMAIN identities
        /\ \E x \in Endings :
             /\ ~Taken(<<slug, x>>)
             /\ identities' = [j \in DOMAIN identities \cup {k} |->
                                 IF j = k THEN [name |-> <<slug, x>>, slug |-> slug, role |-> request[q].role]
                                 ELSE identities[j]]
             /\ Identified(q, <<slug, x>>)
        /\ UNCHANGED <<sight, live, work>>

\* All of MAX_ALLOCATION_ATTEMPTS draws were taken.
AllocationExhausted(q) ==
    /\ RequestAt(q, "resolve") /\ request[q].process \notin DOMAIN identities
    /\ \E x \in Endings : Taken(<<SlugOf[request[q].role], x>>)
    /\ RequestEnds(q)
    /\ UNCHANGED <<sight, identities, live, work>>

\* broker.register takes the place of the agent's registration; broker.renew
\* extends the one that was authenticated, or finds that it is gone.
Admit(q) ==
    /\ RequestAt(q, "admit")
    /\ live' = IF request[q].op = "renew" THEN live
               ELSE [n \in DOMAIN live \cup {request[q].name} |->
                       IF n = request[q].name
                       THEN [process |-> request[q].process, path |-> request[q].path]
                       ELSE live[n]]
    /\ RequestEnds(q)
    /\ UNCHANGED <<sight, identities, work>>

\* unregister, or a lease that has run out.
Deregister(n) ==
    /\ live' = [m \in DOMAIN live \ {n} |-> live[m]]
    /\ UNCHANGED <<sight, identities, request, work>>

-----------------------------------------------------------------------------
(* Reading the directory: the registrations under the broker's lock, then  *)
(* one identity after the other.  list_agents, wait_agents and status read *)
(* it for themselves, resolve_agent to find its target.                    *)

Registered == {[name |-> n, process |-> live[n].process] : n \in DOMAIN live}

BeginLookup(q) ==
    /\ RequestAt(q, "idle")
    /\ RequestGoes(q, [NoRequest EXCEPT !.op = "lookup", !.pc = "read", !.left = Registered])
    /\ UNCHANGED <<sight, identities, live, work>>

\* find_by_canonical, and the comparison of the row with the registration.
Row(g) == {k \in DOMAIN identities : identities[k].name = g.name /\ k[1] = g.process[1]}

directory_agent(q, g) ==
    /\ RequestAt(q, "read") /\ g \in request[q].left
    /\ IF Row(g) = {}
       THEN RequestEnds(q)                  \* identity_unavailable or identity_mismatch
       ELSE LET k == CHOOSE k \in Row(g) : TRUE
            IN  RequestGoes(q, [request[q] EXCEPT !.left = @ \ {g},
                     !.found = @ \cup {[name |-> g.name, role |-> identities[k].role, process |-> g.process]}])
    /\ UNCHANGED <<sight, identities, live, work>>

\* A target is a canonical name, or the role of exactly one live agent.
Candidates(found, target) ==
    LET named == {a \in found : a.name = target.name}
    IN  IF named # {} THEN named ELSE {a \in found : a.role = target.role}

resolve_agent(q, target) ==
    /\ RequestAt(q, "read") /\ request[q].left = {}
    /\ LET named == Candidates(request[q].found, target)
       IN  work' = IF Cardinality(named) = 1
                   THEN work \cup {[name |-> a.name, process |-> a.process] : a \in named}
                   ELSE work
    /\ RequestEnds(q)
    /\ UNCHANGED <<sight, identities, live>>

-----------------------------------------------------------------------------
\* The client goes away, or Herdr, the database or the broker fails.
RequestFails(q) ==
    /\ ~RequestAt(q, "idle")
    /\ RequestEnds(q)
    /\ UNCHANGED <<sight, identities, live, work>>

HerdrMoves(p, s) ==
    /\ s # sight[p]
    /\ sight' = [sight EXCEPT ![p] = s]
    /\ UNCHANGED <<identities, live, request, work>>

\* validate_rows, when the store is opened.
validate_rows ==
    \A k \in DOMAIN identities :
        /\ identities[k].slug \in Slugs /\ identities[k].name[1] = identities[k].slug
        /\ identities[k].role \in Labels

BrokerRestarts ==
    /\ validate_rows
    /\ live' = [n \in {} |-> NoRequest]
    /\ request' = [q \in Requests |-> NoRequest]
    /\ UNCHANGED <<sight, identities, work>>

DirectoryInit ==
    /\ sight \in [Panes -> Sights]
    /\ identities = [k \in {} |-> NoRequest]
    /\ live = [n \in {} |-> NoRequest]
    /\ request = [q \in Requests |-> NoRequest]
    /\ work = {}

\* A name somebody was given, or a role.
Targets == {[name |-> identities[k].name, role |-> ""] : k \in DOMAIN identities}
             \cup {[name |-> <<>>, role |-> l] : l \in Labels}

DirectoryNext ==
    \/ \E q \in Requests :
         \/ \E k \in Processes : BeginRegister(q, k)
         \/ \E n \in DOMAIN live : BeginRenew(q, n)
         \/ Verify(q)
         \/ ResolveKnown(q) \/ ResolveNew(q) \/ AllocationExhausted(q)
         \/ Admit(q)
         \/ BeginLookup(q)
         \/ \E g \in request[q].left : directory_agent(q, g)
         \/ \E target \in Targets : resolve_agent(q, target)
         \/ RequestFails(q)
    \/ \E n \in DOMAIN live : Deregister(n)
    \/ \E p \in Panes, s \in Sights : HerdrMoves(p, s)
    \/ BrokerRestarts

DirectorySpec == DirectoryInit /\ [][DirectoryNext]_directoryVars

-----------------------------------------------------------------------------
\* The name of an agent is that of one process for good, whatever it is
\* called later, and through restarts: a registration under a name that was
\* once resolved is of the process that was resolved, so that no work goes to
\* another agent than the one it was meant for; and every registration that a
\* reading of the directory has seen has its row, so that none of them fails.
NameMeansOneAgent ==
    /\ \A w \in work : w.name \in DOMAIN live => live[w.name].process = w.process
    /\ \A g \in Registered : Row(g) # {}
    /\ \A q \in Requests : \A g \in request[q].left : Row(g) # {}
=============================================================================
