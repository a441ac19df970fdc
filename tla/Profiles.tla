------------------------------ MODULE Profiles ------------------------------
(***************************************************************************)
(* The stores of profiles and keys: two JSON files, peers.json and         *)
(* keystore.json, that the threads of several processes read and write     *)
(* whole.  A thread holds its process's mutex from reading a file to       *)
(* writing it; across processes there is a lock on each read and each      *)
(* write, but none around the two.                                         *)
(*                                                                         *)
(* A profile is its ID, its username, its peer IDs and whether it has a    *)
(* private key; its key ID is its ID.  "mem" is what MemStore would hold   *)
(* after the same operations: the reference the files are compared with.   *)
(***************************************************************************)
EXTENDS Naturals, FiniteSets, Functions

CONSTANTS Threads,             \* a thread is its process and a number
          Own,                 \* the ID of the owner
          Users,               \* the IDs of all profiles
          MaxBegun             \* BOUND: calls

VARIABLES peersFile, keysFile,
          th,        \* th[t]: where a thread's call is
          lock,      \* lock[p]: who holds the mutexes of process p's two stores
          mem,
          mixed,   \* two processes changed a file at once, or one was killed writing it
          killed,    \* a process was killed in a call
          begun

profVars == <<peersFile, keysFile, th, lock, mem, mixed, killed, begun>>

NoProfiles == <<>>
NoKeys == [pks |-> {}, sks |-> {}]
Resting == [at |-> "idle"]
Free == [peers |-> FALSE, keys |-> FALSE]
Proc(t) == t[1]
Procs == {Proc(t) : t \in Threads}
File(v) == [torn |-> FALSE, has |-> v]
Usernames == {"a", "b"}
Peer == 7
\* The profiles that are put: one of two names, and the one with a key has a peer ID and is online.
Profile == {[id |-> i, name |-> n, pids |-> IF n = "a" THEN {Peer} ELSE {}, key |-> n = "a", online |-> n = "a"] :
              i \in Users, n \in Usernames}
Without(f, id) == Restrict(f, DOMAIN f \ {id})
With(f, id, v) == [i \in DOMAIN f \union {id} |-> IF i = id THEN v ELSE f[i]]

-----------------------------------------------------------------------------
(***************************************************************************)
(* MemStore.                                                               *)
(***************************************************************************)
MemPut(m, p) == [store |-> With(m.store, p.id, p),
                 pks   |-> IF p.key THEN m.pks \union {p.id} ELSE m.pks,
                 sks   |-> IF p.key THEN m.sks \union {p.id} ELSE m.sks]
MemDelete(m, id) == [m EXCEPT !.store = Without(@, id)]

\* A map is ranged over in any order: an operator gives the answers there may be, none if
\* nothing is found.
MemPeernameID(m, name) == {id \in DOMAIN m.store : m.store[id].name = name}
MemPeerProfile(m, pid) == {id \in DOMAIN m.store : pid \in m.store[id].pids}
MemPeerIDs(m, id) == {m.store[i].pids : i \in DOMAIN m.store \intersect {id}}
MemList(m) == DOMAIN m.store
MemProfilesForUsername(m, name) == {id \in DOMAIN m.store : m.store[id].name = name}
MemGet(m, id) == {[name |-> m.store[i].name, pids |-> m.store[i].pids, pub |-> i \in m.pks, priv |-> i \in m.sks] :
                    i \in DOMAIN m.store \intersect {id}}

-----------------------------------------------------------------------------
(***************************************************************************)
(* LocalStore: what the file holds is encoded.                             *)
(***************************************************************************)
Encode(p) == [id |-> p.id, name |-> p.name, pids |-> {<<"ipfs", q>> : q \in p.pids}, key |-> p.key, online |-> p.online]
Decode(pod) == [id |-> pod.id, name |-> pod.name, pids |-> {q[2] : q \in pod.pids}, key |-> pod.key]

\* LocalStore.profiles and localStore.keys: a file that cannot be read as JSON is an empty one.
profilesOf(file) == IF file.torn THEN NoProfiles ELSE file.has
keys(file) == IF file.torn THEN NoKeys ELSE file.has

PeernameID(file, name) == {id \in DOMAIN profilesOf(file) : profilesOf(file)[id].name = name}
PeerProfile(file, pid) == {id \in DOMAIN profilesOf(file) : <<"ipfs", pid>> \in profilesOf(file)[id].pids}
PeerIDs(file, id) == {Decode(profilesOf(file)[i]).pids : i \in DOMAIN profilesOf(file) \intersect {id}}
List(file) == {Decode(profilesOf(file)[id]).id : id \in DOMAIN profilesOf(file)}
ProfilesForUsername(file, name) == {id \in DOMAIN profilesOf(file) : profilesOf(file)[id].name = name}
GetProfile(file, ks, id) ==
  {LET p == Decode(profilesOf(file)[i]) IN
   [name |-> p.name, pids |-> p.pids, pub |-> i \in keys(ks).pks, priv |-> i \in keys(ks).sks] :
     i \in DOMAIN profilesOf(file) \intersect {id}}

\* profile.ResolveUsername: the one profile with the name, or an error.
ResolveUsername(pros) == IF Cardinality(pros) = 1 THEN pros ELSE {}

-----------------------------------------------------------------------------
Mine(t) == lock[Proc(t)]
Takes(t, which) == ~Mine(t)[which] /\ lock' = [lock EXCEPT ![Proc(t)][which] = TRUE]
Leaves(t, which) == lock' = [lock EXCEPT ![Proc(t)][which] = FALSE]
Moves(t, at) == th' = [th EXCEPT ![t].at = at]
Crosses(t, places) == mixed' = (mixed \/ \E u \in Threads : Proc(u) # Proc(t) /\ th[u].at \in places)

\* A call of PutProfile, DeleteProfile, or the opening of a repo by its owner.
Begin(t) ==
  /\ th[t] = Resting /\ begun < MaxBegun /\ begun' = begun + 1
  /\ \/ \E p \in Profile : th' = [th EXCEPT ![t] = [op |-> "put", pro |-> p, at |-> IF p.key THEN "pub" ELSE "peers"]]
     \/ \E p \in Profile : /\ ~p.key
                           /\ th' = [th EXCEPT ![t] = [op |-> "delete", pro |-> p, at |-> "peers"]]
     \/ \E p \in Profile : /\ p.id = Own /\ p.key
                           /\ th' = [th EXCEPT ![t] = [op |-> "open", pro |-> p, at |-> "priv"]]
  /\ UNCHANGED <<peersFile, keysFile, lock, mem, mixed, killed>>

\* The beginning of localStore.AddPubKey, AddPrivKey.
ReadKeys(t) ==
  /\ th[t].at \in {"pub", "priv"} /\ Takes(t, "keys")
  /\ th' = [th EXCEPT ![t] = [op |-> @.op, pro |-> @.pro, at |-> IF @.at = "pub" THEN "pubFile" ELSE "privFile",
                              buf |-> keys(keysFile)]]
  /\ UNCHANGED <<peersFile, keysFile, mem, mixed, killed, begun>>

\* AddPubKey from there on: the key is added and the file is written (saveFile).
AddPubKey(t) ==
  /\ th[t].at = "pubFile" /\ Leaves(t, "keys") /\ Moves(t, "priv")
  /\ keysFile' = File([th[t].buf EXCEPT !.pks = @ \union {th[t].pro.id}])
  /\ Crosses(t, {"pubFile", "privFile"})
  /\ UNCHANGED <<peersFile, mem, killed, begun>>

AddPrivKey(t) ==
  /\ th[t].at = "privFile" /\ Leaves(t, "keys") /\ Moves(t, IF th[t].op = "open" THEN "look" ELSE "peers")
  /\ keysFile' = File([th[t].buf EXCEPT !.sks = @ \union {th[t].pro.id}])
  /\ Crosses(t, {"pubFile", "privFile"})
  /\ UNCHANGED <<peersFile, mem, killed, begun>>

\* The opening of a repo looks for its owner and puts the profile that is missing.
Look(t) ==
  /\ th[t].at = "look" /\ ~Mine(t).peers
  /\ IF GetProfile(peersFile, keysFile, Own) = {} THEN th' = [th EXCEPT ![t].op = "put", ![t].at = "pub"]
                                                        ELSE th' = [th EXCEPT ![t] = Resting]
  /\ UNCHANGED <<peersFile, keysFile, lock, mem, mixed, killed, begun>>

\* MUTANT: the file is read before the mutex is taken.
ReadPeersUnlocked(t) ==
  /\ th[t].at = "peers"
  /\ lock' = [lock EXCEPT ![Proc(t)].peers = TRUE]
  /\ th' = [th EXCEPT ![t] = [op |-> @.op, pro |-> @.pro, at |-> "peersFile", buf |-> profilesOf(peersFile)]]
  /\ UNCHANGED <<peersFile, keysFile, mem, mixed, killed, begun>>

\* PutProfile and DeleteProfile take the mutex and read the file...
ReadPeers(t) ==
  /\ th[t].at = "peers" /\ Takes(t, "peers")
  /\ th' = [th EXCEPT ![t] = [op |-> @.op, pro |-> @.pro, at |-> "peersFile", buf |-> profilesOf(peersFile)]]
  /\ UNCHANGED <<peersFile, keysFile, mem, mixed, killed, begun>>

\* ... change the map, write it and leave.  The profile of a peer is stored as not online.
PutProfile(t) ==
  /\ th[t].at = "peersFile" /\ th[t].op = "put" /\ Leaves(t, "peers")
  /\ peersFile' = File(With(th[t].buf, th[t].pro.id, Encode([th[t].pro EXCEPT !.online = FALSE])))
  /\ mem' = MemPut(mem, th[t].pro)
  /\ Crosses(t, {"peersFile"})
  /\ th' = [th EXCEPT ![t] = Resting]
  /\ UNCHANGED <<keysFile, killed, begun>>

DeleteProfile(t) ==
  /\ th[t].at = "peersFile" /\ th[t].op = "delete" /\ Leaves(t, "peers")
  /\ peersFile' = File(Without(th[t].buf, th[t].pro.id))
  /\ mem' = MemDelete(mem, th[t].pro.id)
  /\ Crosses(t, {"peersFile"})
  /\ th' = [th EXCEPT ![t] = Resting]
  /\ UNCHANGED <<keysFile, killed, begun>>

\* A process is killed, perhaps in the middle of a write.
Kill(p) ==
  /\ ~killed /\ killed' = TRUE
  /\ \E t \in Threads : Proc(t) = p /\ th[t] # Resting
  /\ th' = [t \in Threads |-> IF Proc(t) = p THEN Resting ELSE th[t]]
  /\ lock' = [lock EXCEPT ![p] = Free]
  /\ \/ UNCHANGED <<peersFile, keysFile, mixed>>
     \/ /\ \E t \in Threads : Proc(t) = p /\ th[t].at = "peersFile"
        /\ peersFile' = [peersFile EXCEPT !.torn = TRUE] /\ mixed' = TRUE /\ UNCHANGED keysFile
     \/ /\ \E t \in Threads : Proc(t) = p /\ th[t].at \in {"pubFile", "privFile"}
        /\ keysFile' = [keysFile EXCEPT !.torn = TRUE] /\ mixed' = TRUE /\ UNCHANGED peersFile
  /\ UNCHANGED <<mem, begun>>

ProfilesInit ==
  /\ peersFile = File(NoProfiles) /\ keysFile = File(NoKeys)
  /\ th = [t \in Threads |-> Resting] /\ lock = [p \in Procs |-> Free]
  /\ mem = [store |-> NoProfiles, pks |-> {}, sks |-> {}]
  /\ mixed = FALSE /\ killed = FALSE /\ begun = 0

ProfilesNext ==
  \/ \E t \in Threads : \/ Begin(t) \/ ReadKeys(t) \/ AddPubKey(t) \/ AddPrivKey(t) \/ Look(t)
                        \/ ReadPeers(t) \/ PutProfile(t) \/ DeleteProfile(t)
  \/ \E p \in Procs : Kill(p)

ProfilesSpec == ProfilesInit /\ [][ProfilesNext]_profVars

-----------------------------------------------------------------------------
\* As long as no two processes changed a file at once: the file answers every question as
\* MemStore would after the same calls, in whatever order the threads of a process
\* made them; and a profile that was stored with its key has it, also after a process
\* was killed between the two files (LocalStore, localStore).
ProfilesKept ==
  mixed \/
    /\ \A name \in Usernames :
         /\ PeernameID(peersFile, name) = MemPeernameID(mem, name)
         /\ ResolveUsername(ProfilesForUsername(peersFile, name)) = ResolveUsername(MemProfilesForUsername(mem, name))
    /\ PeerProfile(peersFile, Peer) = MemPeerProfile(mem, Peer)
    /\ List(peersFile) = MemList(mem)
    /\ \A id \in Users : PeerIDs(peersFile, id) = MemPeerIDs(mem, id)
    /\ \A id \in DOMAIN profilesOf(peersFile) :
         /\ profilesOf(peersFile)[id].key => \A got \in GetProfile(peersFile, keysFile, id) : got.pub /\ got.priv
         /\ ((\A t \in Threads : th[t] = Resting) /\ ~killed /\ id # Own) => GetProfile(peersFile, keysFile, id) = MemGet(mem, id)
=============================================================================
