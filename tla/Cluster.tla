------------------------------ MODULE Cluster ------------------------------
(***************************************************************************)
(* The nodes of a cluster: their names (local_cache.go of server and       *)
(* worker), their registration at the master (GetMeta of master/rpc.go,    *)
(* storage/meta/sqlite.go), the configuration they take over and the       *)
(* stores they connect to (Sync of server/server.go and worker/worker.go), *)
(* and the users a worker takes for itself (pullUsers).                    *)
(*                                                                         *)
(* Time is in seconds, the resolution of the meta store.  What Sync does   *)
(* about models is the subject of ModelSync.                               *)
(***************************************************************************)
EXTENDS Integers, FiniteSets, Sequences

CONSTANTS
  Workers, Servers,   \* the machines there may be
  Clusters,           \* sets of them: which there are
  Users,
  Ring,               \* user -> the names of the points that follow it on the hash ring
  Configs,            \* configurations of the master: [data, cache], stores by their paths
  ViaMaster,          \* the stores that are reached through the master (SQLite)
  MetaTimeout,        \* seconds between two calls, and the lifetime of a registration
  MaxTime, MaxNames,  \* bounds
  MaxIncidents        \* bound: crashes, failed calls, other configurations; and machines

VARIABLES
  now,
  master,       \* the configuration of the master
  nodes,        \* meta store: names registered -> [type, at]
  names,        \* names given so far
  nameFile,     \* machine -> its local cache file: a name, or one of NoFile and Torn
  node,         \* machine -> its process
  incidents

NoStore == "no store"
StoreKinds == {"data", "cache"}

ASSUME ClusterAssumption ==
  /\ {MetaTimeout, MaxNames} \subseteq Nat
  /\ \A u \in Users : /\ Ring[u] \in Seq(Nat)
                      /\ \A n \in 1 .. MaxNames : \E k \in DOMAIN Ring[u] : Ring[u][k] = n
  /\ \A c \in Configs : /\ c = [k \in StoreKinds |-> c[k]]
                        /\ \A k \in StoreKinds : c[k] # NoStore

clusterVars == <<now, master, nodes, names, nameFile, node, incidents>>

Machines == Workers \cup Servers
NoFile == 0     \* names are the numbers from 1 on
Torn == -1
Type(machine) == IF machine \in Workers THEN "worker" ELSE "server"

NoPaths == [k \in StoreKinds |-> NoStore]
NoReply == [none |-> TRUE]
NoUsers == [none |-> TRUE]

Down == [step |-> "down"]
Absent == [step |-> "absent"]
Panicked == [step |-> "panic"]
\* step: "create" and "write" the file, "call" the master, "apply" what it has
\* answered, "sleep", "panic"
Process(step, name) ==
  [step |-> step, name |-> name, reply |-> NoReply, wakes |-> 0,
   path |-> NoPaths, client |-> NoPaths,    \* of the stores
   synced |-> NoPaths,                      \* history: paths of the last sync, if it succeeded
   failed |-> NoPaths,                      \* history: what it could not connect to last
   peers |-> {}, pulled |-> NoUsers]        \* pulled: [peers, users] of the last round

Live == {m \in Machines : node[m].step \notin {"absent", "down", "panic"}}
NameOf(m) == node[m].name

ClusterInit ==
  /\ now = 0
  /\ master \in Configs
  /\ nodes = <<>>
  /\ names = 0
  /\ nameFile = [m \in Machines |-> NoFile]
  /\ \E cluster \in Clusters : node = [m \in Machines |-> IF m \in cluster THEN Down ELSE Absent]
  /\ incidents = 0

\* The more machines, the fewer incidents.
Incident ==
  /\ incidents + Cardinality({m \in Machines : node[m] # Absent}) < MaxIncidents
  /\ incidents' = incidents + 1
Ticks == now < MaxTime /\ now' = now + 1 /\ UNCHANGED <<master, nodes, names, nameFile, node, incidents>>

----------------------------------------------------------------------------
(* Serve: the name of a node                                               *)

\* A file that ends early leaves the state of a worker empty.  A server gets
\* nil for it, and panics.
Starts(m) ==
  /\ node[m] = Down
  /\ CASE nameFile[m] > 0 ->
            node' = [node EXCEPT ![m] = Process("call", nameFile[m])] /\ UNCHANGED names
       [] nameFile[m] = Torn /\ m \in Servers ->
            node' = [node EXCEPT ![m] = Panicked] /\ UNCHANGED names
       [] OTHER ->
            /\ names < MaxNames /\ names' = names + 1
            /\ node' = [node EXCEPT ![m] = Process("create", names')]
  /\ UNCHANGED <<now, master, nodes, nameFile, incidents>>

\* WriteLocalCache
WritesName(m) ==
  /\ node[m].step \in {"create", "write"}
  /\ nameFile' = [nameFile EXCEPT ![m] = IF node[m].step = "create" THEN Torn ELSE NameOf(m)]
  /\ node' = [node EXCEPT ![m].step = IF @ = "create" THEN "write" ELSE "call"]
  /\ UNCHANGED <<now, master, nodes, names, incidents>>

Crashes(m) ==
  /\ m \in Live
  /\ Incident
  /\ node' = [node EXCEPT ![m] = Down]
  /\ UNCHANGED <<now, master, nodes, names, nameFile>>

\* The master restarts with another configuration; the meta store is a file.
MasterChanges ==
  /\ Incident
  /\ master' \in Configs \ {master}
  /\ UNCHANGED <<now, nodes, names, nameFile, node>>

----------------------------------------------------------------------------
(* The meta store                                                          *)

Registered(table) == {n \in DOMAIN table : table[n].at >= now - MetaTimeout}
\* ListNodes deletes what is older.
ListedNodes(table) == [n \in Registered(table) |-> table[n]]
UpdateNode(name, type) ==
  [n \in DOMAIN nodes \cup {name} |-> IF n = name THEN [type |-> type, at |-> now] ELSE nodes[n]]
OfType(table, type) == {n \in DOMAIN table : table[n].type = type}

\* Bug: the list of nodes is made before the node is registered
ListsAndRegisters(m) ==
  /\ node[m].step = "call"
  /\ nodes' = UpdateNode(NameOf(m), Type(m))
  /\ node' = [node EXCEPT ![m].step = "apply",
                          ![m].reply = [config |-> master, workers |-> OfType(ListedNodes(nodes), "worker")]]
  /\ UNCHANGED <<now, master, names, nameFile, incidents>>
\* A call that fails may have registered the node before.
GetsMeta(m) ==
  /\ node[m].step = "call"
  /\ \/ /\ nodes' = ListedNodes(UpdateNode(NameOf(m), Type(m)))
        /\ node' = [node EXCEPT ![m].step = "apply",
                                ![m].reply = [config |-> master, workers |-> OfType(nodes', "worker")]]
        /\ UNCHANGED incidents
     \/ /\ Incident
        /\ nodes' \in {nodes, UpdateNode(NameOf(m), Type(m))}
        /\ node' = [node EXCEPT ![m].step = "sleep", ![m].wakes = now + MetaTimeout]
  /\ UNCHANGED <<now, master, names, nameFile>>

\* getCluster, getStats and getTasks of the dashboard list the nodes as well.
DashboardLists ==
  /\ nodes' = ListedNodes(nodes)
  /\ nodes' # nodes
  /\ UNCHANGED <<now, master, names, nameFile, node, incidents>>

----------------------------------------------------------------------------
(* Sync                                                                    *)

\* What a store's connection becomes.  The client is assigned what Open
\* returns, and nil when it fails; the path only after that.
Connects(process, k) ==
  LET path == process.reply.config[k] IN
    IF process.path[k] = path THEN process
    ELSE [process EXCEPT !.client[k] = path, !.path[k] = path, !.failed[k] = NoStore]
FailedToConnect(process, k) ==
  [process EXCEPT !.client[k] = NoStore, !.failed[k] = process.reply.config[k]]
NotConnected(process, k) == FailedToConnect(process, k)
MayFail(process, k) == process.path[k] # process.reply.config[k] /\ process.reply.config[k] \notin ViaMaster

Slept(process, synced) ==
  [process EXCEPT !.step = "sleep", !.wakes = now + MetaTimeout, !.reply = NoReply, !.synced = synced]

AppliesMeta(m) ==
  LET process == node[m]
      data == Connects(process, "data")
      both == Connects(data, "cache") IN
    /\ process.step = "apply"
    /\ \/ /\ node' = [node EXCEPT ![m] =
                        Slept([both EXCEPT !.peers = IF m \in Workers THEN process.reply.workers ELSE {}],
                              process.reply.config)]
          /\ UNCHANGED incidents
       \/ /\ MayFail(process, "data") /\ Incident
          /\ node' = [node EXCEPT ![m] = Slept(NotConnected(process, "data"), NoPaths)]
       \/ /\ MayFail(data, "cache") /\ Incident
          /\ node' = [node EXCEPT ![m] = Slept(NotConnected(data, "cache"), NoPaths)]
    /\ UNCHANGED <<now, master, nodes, names, nameFile>>

WakesNode(m) ==
  /\ node[m].step = "sleep" /\ now >= node[m].wakes
  /\ node' = [node EXCEPT ![m].step = "call", ![m].wakes = 0]
  /\ UNCHANGED <<now, master, nodes, names, nameFile, incidents>>

----------------------------------------------------------------------------
(* A round of a worker begins with the users that are its own.             *)

\* The first point on the ring that is one of the peers'.
IsFirst(k, peers, u) == Ring[u][k] \in peers /\ \A h \in 1 .. k - 1 : Ring[u][h] \notin peers
Owner(peers, u) == Ring[u][CHOOSE k \in DOMAIN Ring[u] : IsFirst(k, peers, u)]
PullsOwnUsers(m) ==
  /\ m \in Workers /\ m \in Live
  /\ NameOf(m) \in node[m].peers
  /\ LET pulled == [peers |-> node[m].peers,
                    users |-> {u \in Users : Owner(node[m].peers, u) = NameOf(m)}] IN
       /\ node[m].pulled # pulled
       /\ node' = [node EXCEPT ![m].pulled = pulled]
  /\ UNCHANGED <<now, master, nodes, names, nameFile, incidents>>

ClusterNext ==
  \/ Ticks \/ MasterChanges \/ DashboardLists
  \/ \E m \in Machines : \/ Starts(m) \/ WritesName(m) \/ Crashes(m)
                         \/ GetsMeta(m) \/ AppliesMeta(m) \/ WakesNode(m) \/ PullsOwnUsers(m)
ClusterSpec == ClusterInit /\ [][ClusterNext]_clusterVars

----------------------------------------------------------------------------
(* Properties *)

LiveWorkers == Workers \cap Live

\* Users are not lost between workers, although each has its own idea of who
\* the others are: a worker that has synchronised finds itself among its
\* peers; when all workers have pulled users and none of them counted on a
\* worker that is gone, every user is some worker's; and only workers whose
\* peers differ pull the same user (worker.go 1239-1274, rpc.go 32-86).
UsersAreShared ==
  /\ \A m \in LiveWorkers : node[m].peers # {} => NameOf(m) \in node[m].peers
  /\ LET pulled(m) == node[m].pulled
         settled == \A m \in LiveWorkers : pulled(m) # NoUsers
             /\ pulled(m).peers \subseteq {NameOf(w) : w \in LiveWorkers} IN
       /\ LiveWorkers # {} /\ settled => UNION {pulled(m).users : m \in LiveWorkers} = Users
       /\ \A m, w \in LiveWorkers :
            m # w /\ NoUsers \notin {pulled(m), pulled(w)} /\ pulled(m).users \cap pulled(w).users # {}
              => pulled(m).peers # pulled(w).peers

\* After a sync without error a node works with the stores of the configuration
\* it was given, except for a store it could not connect to before the
\* configuration went back to the one it was connected to: then it believes to
\* be connected and has no client (server.go 173-206, worker.go 193-226).
NodesUseTheirStores ==
  \A m \in Live : node[m].synced # NoPaths =>
    \A k \in StoreKinds :
      \/ node[m].client[k] = node[m].synced[k]
      \/ node[m].client[k] = NoStore /\ node[m].failed[k] \notin {NoStore, node[m].synced[k]}

ClusterAgrees == UsersAreShared /\ NodesUseTheirStores
=============================================================================
