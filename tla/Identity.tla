------------------------------ MODULE Identity ------------------------------
(***************************************************************************)
(* Who a node is: the profile in its configuration, the owner of its       *)
(* profile store, the keys of its key store, the author of its logbook,    *)
(* the names in its references, and the name a registry has for its key.   *)
(* The methods that change them (lib/registry.go, lib/profile.go, `qri     *)
(* config set`) go through them one after the other; two requests run at   *)
(* once, each step may fail, and the program may die between any two.      *)
(* Other users register with the same registry.                            *)
(***************************************************************************)
EXTENDS Migrate

CONSTANTS
    Names,        \* usernames
    Keys,         \* the key pairs this user comes to have, one per setup
    Others,       \* the key pairs of the other users of the registry
    Account,      \* the profile ID of the account ProveProfileKey is about
    Datasets,
    Threads,      \* requests the node handles at once
    MaxCalls      \* bound: requests, and registrations of the others

\* A profile ID is the hash of the public key, which stands for itself.
IDs == Keys \cup Others \cup {Account}
Profile == [name : Names, id : IDs, key : Keys]
Book == [author : Names, id : IDs, has : SUBSET Datasets]
ASSUME IdentityAssumption ==
    /\ None \notin IDs \cup Names \cup Profile \cup Book \cup {Torn}
    /\ Account \notin Names /\ Keys # {}

VARIABLES
    reg,      \* reg[name]: the profile ID registered for the name (MemProfiles)
    hs,       \* hs[c]: the registry's handler of a registration of c
    disk,     \* the profile in config.yaml: [name, id, key], Torn or None
    cfg,      \* inst.cfg.Profile
    owner,    \* the owner of the profile store: [name, id]
    store,    \* [peers, keys]: peers.json and the private keys of keystore.json
    refs,     \* refs[d]: the username in the reference of d, or None
    book,     \* the logbook of the instance, of the repo, on disk: [author, id, has]
    task,     \* task[t]: the request of thread t
    calls,
    spare,    \* key pairs not made yet
    tried     \* history: the usernames, and the account, in play since all of them last
              \* agreed, and None when references could not be listed

idVars == <<reg, hs, disk, cfg, owner, store, refs, book, task, calls, spare, tried>>
identityVars == <<migrateVars, idVars>>

Callers == Threads \cup Others
up == mpc = "ready"
NoTask == [op |-> "none", at |-> "none", name |-> None, cfg |-> None, todo |-> {}, live |-> FALSE]
NoRequest == [at |-> "none", name |-> None, id |-> None, prev |-> None]

IdentityType ==
    /\ reg \in [Names -> IDs \cup {None}]
    /\ \A c \in Callers : hs[c].at \in {"none", "load", "range", "delete", "create", "ok", "taken"}
    /\ disk \in Profile \cup {Torn, None}
    /\ cfg \in Profile \cup {None}
    /\ owner \in [name : Names, id : IDs] \cup {None}
    /\ store.peers \in [IDs -> Names \cup {None}] /\ store.keys \subseteq IDs
    /\ refs \in [Datasets -> Names \cup {None}]
    /\ \A t \in Threads : task[t].todo \subseteq Datasets

-----------------------------------------------------------------------------
(* The registry: regserver's handler of POST /registry/profile, which runs  *)
(* RegisterProfile over a map whose operations are locked one by one.       *)

\* The profile ID a request comes with (ProfileFromPrivateKey).
ProfileID(c) == IF c \in Threads THEN cfg.key ELSE c

\* doJSONProfileReq: POST for username name, signed with the key of c.
PostProfile(c, name) ==
    /\ hs[c].at \in {"none", "ok", "taken"}
    /\ hs' = [hs EXCEPT ![c] = [at |-> "load", name |-> name, id |-> ProfileID(c), prev |-> None]]

\* store.Load: the name is the caller's already, taken, or free.
RegisterLoad(c) ==
    /\ hs[c].at = "load"
    /\ LET held == reg[hs[c].name] IN
       hs' = [hs EXCEPT ![c].at = CASE held = hs[c].id -> "ok" [] held = None -> "range" [] OTHER -> "taken"]
    /\ UNCHANGED reg

\* store.Range looks for the caller's present name: the callback stops the range at
\* the first entry that is not the caller's, and the map is ranged over in any order.
RegisterRange(c) ==
    /\ hs[c].at = "range"
    /\ LET mine == {n \in Names : reg[n] = hs[c].id}
           notMine == {n \in Names : reg[n] \notin {None, hs[c].id}}
       IN  \E prev \in mine \cup (IF mine = {} \/ notMine # {} THEN {None} ELSE {}) :
             hs' = [hs EXCEPT ![c].prev = prev, ![c].at = IF prev = None THEN "create" ELSE "delete"]
    /\ UNCHANGED reg

\* MemProfiles.Delete of that name.
RegisterDelete(c) ==
    /\ hs[c].at = "delete"
    /\ reg' = [reg EXCEPT ![hs[c].prev] = None]
    /\ hs' = [hs EXCEPT ![c].at = "create"]

\* MemProfiles.Create.
RegisterCreate(c) ==
    /\ hs[c].at = "create"
    /\ reg' = [reg EXCEPT ![hs[c].name] = hs[c].id]
    /\ hs' = [hs EXCEPT ![c].at = "ok"]

\* One step of a handler.
RegistryStep(c) ==
    /\ RegisterLoad(c) \/ RegisterRange(c) \/ RegisterDelete(c) \/ RegisterCreate(c)
    /\ UNCHANGED <<migrateVars, disk, cfg, owner, store, refs, book, task, calls, tried, spare>>

\* Another user registers a name, and is answered.
OtherRegisters(c, name) ==
    /\ calls < MaxCalls
    /\ calls' = calls + 1
    /\ PostProfile(c, name)
    /\ UNCHANGED <<migrateVars, reg, disk, cfg, owner, store, refs, book, task, tried, spare>>

-----------------------------------------------------------------------------
(* The stores of the node.                                                  *)

\* AddPrivKey, of the key store: read, change, write.
AddPrivKey(keys, id) == keys \cup {id}

\* PutProfile: the keys of the profile, then the profile, under its ID.
PutProfile(s, p) ==
    [peers |-> [s.peers EXCEPT ![p.id] = p.name], keys |-> AddPrivKey(s.keys, p.id)]

\* LocalStore.SetOwner: the owner of the store, then PutProfile, which may fail.
SetOwner(p, fails_) ==
    /\ owner' = [name |-> p.name, id |-> p.id]
    /\ store' = IF fails_ THEN store ELSE PutProfile(store, p)

Agree ==
    /\ disk \notin {Torn, None} /\ cfg = disk
    /\ owner = [name |-> cfg.name, id |-> cfg.id]
    /\ book.one /\ book.inst = book.disk /\ book.disk.author = cfg.name
    /\ \A d \in Datasets : refs[d] \in {None, cfg.name}
Quiet == \A t \in Threads : task[t].op = "none"

\* A request begins; names are the usernames it may write.
Begin(t, op, at, name, names) ==
    /\ up /\ task[t].op = "none" /\ calls < MaxCalls
    /\ calls' = calls + 1
    /\ task' = [task EXCEPT ![t] = [op |-> op, at |-> at, name |-> name, cfg |-> cfg, todo |-> {},
                                    live |-> TRUE]]
    /\ tried' = (IF Quiet /\ Agree THEN {} ELSE tried) \cup names

\* A request goes on to its next step, or returns.
Goes(t, at) == task' = [task EXCEPT ![t].at = at]
Returns(t) == task' = [task EXCEPT ![t] = NoTask]

\* A step of a request fails, and the request returns the error.
Errs(t) == fails < MaxFails /\ fails' = fails + 1 /\ Returns(t)

restVars == <<file, tmp, mem, mpc, ipfs, foreign, own>>

-----------------------------------------------------------------------------
(* RegistryClientMethods.CreateProfile (`qri registry signup`).             *)

CreateProfile(t, name) ==
    /\ Begin(t, "CreateProfile", "post", name, {name})
    /\ PostProfile(t, name)
    /\ UNCHANGED <<migrateVars, reg, disk, cfg, owner, store, refs, book, spare>>

\* The answer of the registry is an error; or the network fails, before the request
\* arrives or while the registry works on it, which it then does to the end.
PostFails(t) ==
    /\ task[t].at = "post"
    /\ \/ hs[t].at = "taken" /\ UNCHANGED <<fails, hs>>
       \/ /\ fails < MaxFails /\ fails' = fails + 1
          /\ hs' \in {hs, IF hs[t].at = "load" THEN [hs EXCEPT ![t] = NoRequest] ELSE hs}
    /\ Returns(t)
    /\ UNCHANGED <<restVars, reg, disk, cfg, owner, store, refs, book, calls, tried, spare>>

\* MUTANT: the configuration is changed first, the references after it.
updateConfigFirst(t) ==
    /\ task[t].op = "CreateProfile" /\ task[t].at = "post" /\ hs[t].at = "ok"
    /\ LET c == [cfg EXCEPT !.name = task[t].name]
           renamed == c.name # cfg.name
       IN  /\ task' = [task EXCEPT ![t].cfg = c,
                                   ![t].at = IF renamed THEN "refs" ELSE "owner",
                                   ![t].todo = IF renamed THEN {d \in Datasets : refs[d] = cfg.name} ELSE {}]
           /\ disk' = c /\ cfg' = c
    /\ hs' = [hs EXCEPT ![t] = NoRequest]
    /\ UNCHANGED <<migrateVars, reg, owner, store, refs, book, calls, tried, spare>>

\* configFromProfile, and the references ModifyRepoUsername lists when the name is
\* not the one of the configuration.  An error of the list is dropped: no reference
\* is renamed, and the request goes on.
updateConfig(t) ==
    /\ task[t].op = "CreateProfile" /\ task[t].at = "post" /\ hs[t].at = "ok"
    /\ \E listed \in BOOLEAN :
         LET c == [cfg EXCEPT !.name = task[t].name]
             renamed == c.name # cfg.name
         IN  /\ ~listed => renamed /\ fails < MaxFails
             /\ fails' = IF listed THEN fails ELSE fails + 1
             /\ tried' = IF listed THEN tried ELSE tried \cup {None}
             /\ task' = [task EXCEPT ![t].cfg = c,
                                     ![t].at = IF renamed THEN "refs" ELSE "owner",
                                     ![t].todo = IF renamed /\ listed THEN {d \in Datasets : refs[d] = cfg.name} ELSE {}]
    /\ hs' = [hs EXCEPT ![t] = NoRequest]
    /\ UNCHANGED <<restVars, reg, disk, cfg, owner, store, refs, book, calls, spare>>

\* ModifyRepoUsername: a reference is deleted and put again under the new name;
\* either may fail, and then a reference that was deleted is gone ...
ModifyRef(t, d) ==
    /\ task[t].at = "refs" /\ d \in task[t].todo
    /\ \/ /\ refs' = [refs EXCEPT ![d] = None]
          /\ task' = [task EXCEPT ![t].at = "put"] /\ UNCHANGED fails
       \/ Errs(t) /\ UNCHANGED refs
    /\ UNCHANGED <<restVars, reg, hs, disk, cfg, owner, store, book, calls, tried, spare>>

PutModified(t, d) ==
    /\ task[t].at = "put" /\ d \in task[t].todo
    /\ refs[d] = None
    /\ \/ /\ refs' = [refs EXCEPT ![d] = task[t].name]
          /\ task' = [task EXCEPT ![t].at = "refs", ![t].todo = @ \ {d}] /\ UNCHANGED fails
       \/ Errs(t) /\ UNCHANGED refs
    /\ UNCHANGED <<restVars, reg, hs, disk, cfg, owner, store, book, calls, tried, spare>>

\* The logbook b is saved: copies of the instance and of the repo that are one object
\* change together.
Saved(b, who) ==
    [disk |-> b, one |-> book.one,
     inst |-> IF book.one \/ who = "inst" THEN b ELSE book.inst,
     repo |-> IF book.one \/ who = "repo" THEN b ELSE book.repo]

\* ... and then the author's log is amended (WriteAuthorRename of inst.logbook).
WriteAuthorRename(t) ==
    /\ task[t].at = "refs" /\ task[t].todo = {}
    /\ \/ /\ book' = Saved([book.inst EXCEPT !.author = task[t].name], "inst")
          /\ Goes(t, "owner") /\ UNCHANGED fails
       \/ /\ book' = [Saved([book.inst EXCEPT !.author = task[t].name], "inst") EXCEPT !.disk = book.disk]
          /\ Errs(t)
    /\ UNCHANGED <<restVars, reg, hs, disk, cfg, owner, store, refs, calls, tried, spare>>

\* The profile a request makes the owner: that of its configuration, or, for a photo,
\* the owner there is.
OwnerToSet(t) ==
    CASE task[t].op = "Photo" -> owner
      [] task[t].op = "SaveProfile" /\ task[t].live -> cfg
      [] OTHER -> task[t].cfg

\* SetOwner; a proof that holds the object of the owner there was goes on with it.
SetsOwner(t) ==
    /\ task[t].at = "owner"
    /\ \E failed \in BOOLEAN :
         /\ SetOwner(OwnerToSet(t), failed)
         /\ failed => fails < MaxFails
         /\ fails' = IF failed THEN fails + 1 ELSE fails
         /\ task' = [s \in Threads |->
                       IF s = t THEN IF failed \/ task[t].op = "Photo" THEN NoTask ELSE [task[t] EXCEPT !.at = "config"]
                       ELSE IF task[s].op = "Prove" /\ task[t].op # "Photo" THEN [task[s] EXCEPT !.live = FALSE]
                       ELSE task[s]]
    /\ UNCHANGED <<restVars, reg, hs, disk, cfg, refs, book, calls, tried, spare>>

\* WithPrivateValues: the private key is always the one of the configuration in use.
WithPrivateValues(c) == [c EXCEPT !.key = cfg.key]

\* The configuration a request hands to ChangeConfig: inst.cfg for SetConfig and for a
\* SaveProfile nobody has replaced it under, a copy for the others.
Held(t) ==
    IF task[t].at = "config1" \/ (task[t].op = "SaveProfile" /\ task[t].live) THEN cfg ELSE task[t].cfg

\* What a request does once its configuration is changed.
AfterConfig(t) ==
    IF task[t].at = "config1" THEN "save"
    ELSE IF task[t].op = "Photo" THEN "owner"
    ELSE "none"

\* WriteToFile does not finish: the old file, or a torn one.
WriteToFileFails == disk' \in {disk, Torn}

\* ChangeConfig: config.yaml is written, then inst.cfg replaced; a SaveProfile that
\* holds the object that was there goes on with it.
ChangeConfig(t) ==
    /\ task[t].at \in {"config", "config1"}
    /\ \/ LET c == WithPrivateValues(Held(t)) IN
          /\ disk' = c /\ cfg' = c
          /\ task' = [s \in Threads |->
                        IF s = t THEN IF AfterConfig(t) = "none" THEN NoTask ELSE [task[t] EXCEPT !.at = AfterConfig(t)]
                        ELSE IF task[s].op = "SaveProfile" /\ task[s].live THEN [task[s] EXCEPT !.live = FALSE, !.cfg = cfg]
                        ELSE task[s]]
          /\ UNCHANGED fails
       \/ WriteToFileFails /\ Errs(t) /\ UNCHANGED cfg
    /\ UNCHANGED <<restVars, reg, hs, owner, store, refs, book, calls, tried, spare>>

-----------------------------------------------------------------------------
(* ProfileMethods.SaveProfile, and `qri config set profile.peername`, which  *)
(* changes inst.cfg itself, saves it, and then calls SaveProfile.            *)

SaveProfile(t, name) ==
    /\ Begin(t, "SaveProfile", "save", name, {name, owner.name})
    /\ UNCHANGED <<migrateVars, reg, hs, disk, cfg, owner, store, refs, book, spare>>

ConfigSet(t, name) ==
    /\ Begin(t, "SaveProfile", "config1", name, {name, owner.name})
    /\ cfg' = [cfg EXCEPT !.name = name]
    /\ UNCHANGED <<migrateVars, reg, hs, disk, owner, store, refs, book, spare>>

\* SaveProfile asks the registry for a name that is not the configuration's ...
SaveAsks(t) ==
    /\ task[t].at = "save"
    /\ IF task[t].name # cfg.name
       THEN PostProfile(t, task[t].name) /\ task' = [task EXCEPT ![t].at = "post", ![t].live = TRUE]
       ELSE task' = [task EXCEPT ![t].at = "owner", ![t].live = TRUE] /\ UNCHANGED hs
    /\ UNCHANGED <<migrateVars, reg, disk, cfg, owner, store, refs, book, calls, tried, spare>>

\* ... and sets it in the configuration it holds.
SaveSets(t) ==
    /\ task[t].op = "SaveProfile" /\ task[t].at = "post" /\ hs[t].at = "ok"
    /\ hs' = [hs EXCEPT ![t] = NoRequest]
    /\ IF task[t].live
       THEN cfg' = [cfg EXCEPT !.name = task[t].name] /\ Goes(t, "owner")
       ELSE task' = [task EXCEPT ![t].cfg.name = task[t].name, ![t].at = "owner"] /\ UNCHANGED cfg
    /\ UNCHANGED <<migrateVars, reg, disk, owner, store, refs, book, calls, tried, spare>>

\* SetProfilePhoto: a copy of the configuration with the photo is saved, then the
\* owner; the photo itself is left out.
SetProfilePhoto(t) ==
    /\ Begin(t, "Photo", "config", cfg.name, {cfg.name})
    /\ UNCHANGED <<migrateVars, reg, hs, disk, cfg, owner, store, refs, book, spare>>

SetPosterPhoto(t) ==
    /\ Begin(t, "Photo", "config", cfg.name, {cfg.name})
    /\ UNCHANGED <<migrateVars, reg, hs, disk, cfg, owner, store, refs, book, spare>>

-----------------------------------------------------------------------------
(* RegistryClientMethods.ProveProfileKey (`qri registry prove`).             *)

\* Refused when there is any reference.
ProveProfileKey(t, name) ==
    /\ \A d \in Datasets : refs[d] = None
    /\ Begin(t, "Prove", "prove", name, {name, Account})
    /\ UNCHANGED <<migrateVars, reg, hs, disk, cfg, owner, store, refs, book, spare>>

\* The registry answers with the profile ID of the account (NewProveKeyHandler), which
\* goes into a copy of the configuration and into the owner itself.
Proved(t) ==
    /\ task[t].at = "prove"
    /\ \/ /\ task' = [task EXCEPT ![t].at = "log", ![t].cfg = [cfg EXCEPT !.name = task[t].name, !.id = Account]]
          /\ owner' = IF task[t].live THEN [owner EXCEPT !.id = Account] ELSE owner
          /\ UNCHANGED fails
       \/ Errs(t) /\ UNCHANGED owner
    /\ UNCHANGED <<restVars, reg, hs, disk, cfg, store, refs, book, calls, tried, spare>>

\* The logbook the registry has for the account replaces the contents of the repo's;
\* when it has none, a new one is made for the instance over the file of the old.
ProveReplacesLog(t, logbookInit) ==
    /\ task[t].at = "log"
    /\ LET b == [author |-> task[t].name, id |-> Account, has |-> {}] IN
       \/ /\ book' = IF logbookInit THEN Saved(b, "repo")
                     ELSE [disk |-> b, inst |-> b, repo |-> book.repo, one |-> FALSE]
          /\ Goes(t, "config") /\ UNCHANGED fails
       \/ Errs(t) /\ UNCHANGED book
    /\ UNCHANGED <<restVars, reg, hs, disk, cfg, owner, store, refs, calls, tried, spare>>

-----------------------------------------------------------------------------
\* A dataset is saved under the owner's name, in the repo's logbook (base.SaveDataset).
SaveDataset(d) ==
    /\ up /\ refs[d] = None /\ d \notin book.repo.has
    /\ refs' = [refs EXCEPT ![d] = owner.name]
    /\ book' = Saved([book.repo EXCEPT !.has = @ \cup {d}], "repo")
    /\ tried' = IF Quiet THEN tried ELSE tried \cup {owner.name}
    /\ UNCHANGED <<migrateVars, reg, hs, disk, cfg, owner, store, task, calls, spare>>

\* NewInstance over a migrated configuration: its profile is the owner, whose key is
\* added to the key store; the logbook is read, or begun.
Construct ==
    /\ cfg' = disk
    /\ owner' = [name |-> disk.name, id |-> disk.id]
    /\ store' = [store EXCEPT !.keys = AddPrivKey(@, disk.id)]
    /\ LET b == IF book.disk = None THEN [author |-> disk.name, id |-> disk.key, has |-> {}] ELSE book.disk
       IN  book' = [disk |-> b, inst |-> b, repo |-> b, one |-> TRUE]
    /\ UNCHANGED <<reg, hs, disk, refs, task, calls, tried, spare>>

\* NewInstance: config.yaml is read; one of an earlier revision is migrated first.
NewInstance ==
    /\ disk \notin {Torn, None}
    /\ LoadConfig
    /\ IF file.rev = CurrentConfigRevision THEN Construct ELSE UNCHANGED idVars

Migrated ==
    \E errorOnSuccess \in BOOLEAN :
      /\ RunMigrationsReturns(errorOnSuccess)
      /\ IF errorOnSuccess THEN UNCHANGED idVars ELSE Construct

\* The program is stopped or dies; a configuration that was being written is torn.
Stops ==
    /\ up /\ fails < MaxFails
    /\ fails' = fails + 1 /\ mpc' = "down"
    /\ IF \E t \in Threads : task[t].at \in {"config", "config1"} THEN WriteToFileFails ELSE UNCHANGED disk
    /\ task' = [t \in Threads |-> NoTask]
    /\ UNCHANGED <<file, tmp, mem, ipfs, foreign, own, reg, hs, cfg, owner, store, refs, book, calls, tried, spare>>

\* lib.Teardown (`qri setup --remove`) removes the directory of the repo.
Teardown ==
    /\ up /\ Quiet /\ calls < MaxCalls
    /\ calls' = calls + 1
    /\ mpc' = "down"
    /\ disk' = None /\ cfg' = None /\ owner' = None
    /\ store' = [peers |-> [i \in IDs |-> None], keys |-> {}]
    /\ refs' = [d \in Datasets |-> None]
    /\ book' = [disk |-> None, inst |-> None, repo |-> None, one |-> TRUE]
    /\ tried' = {}
    /\ UNCHANGED <<file, tmp, mem, ipfs, foreign, own, fails, reg, hs, task, spare>>

\* lib.Setup where there is no repo: a new key pair, and the name asked for.
Setup(key, name) ==
    /\ mpc = "down" /\ disk = None /\ key \in spare
    /\ spare' = spare \ {key}
    /\ disk' = [name |-> name, id |-> key, key |-> key]
    /\ UNCHANGED <<migrateVars, reg, hs, cfg, owner, store, refs, book, task, calls, tried>>

Calls(t) ==
    \/ \E name \in Names : CreateProfile(t, name) \/ SaveProfile(t, name) \/ ConfigSet(t, name) \/ ProveProfileKey(t, name)
    \/ SetProfilePhoto(t) \/ SetPosterPhoto(t)

Steps(t) ==
    \/ PostFails(t) \/ updateConfig(t)
    \/ \E d \in Datasets : ModifyRef(t, d) \/ PutModified(t, d)
    \/ WriteAuthorRename(t) \/ SetsOwner(t) \/ ChangeConfig(t)
    \/ SaveAsks(t) \/ SaveSets(t)
    \/ Proved(t) \/ \E logbookInit \in BOOLEAN : ProveReplacesLog(t, logbookInit)

\* The steps of Migrate that do not concern the identity.
Migrates ==
    /\ \/ ZeroToOne \/ OneToTwo \/ TwoToThree \/ WriteUpdated \/ RenameUpdated \/ maybeRemoveIPFSRepo
       \/ DeclineMigration \/ MigrationFails \/ rollbackConfigWrite \/ MigrationDies
    /\ UNCHANGED idVars

IdentityNext ==
    \/ \E t \in Threads : Calls(t) \/ Steps(t)
    \/ \E c \in Callers : RegistryStep(c)
    \/ \E c \in Others, name \in Names : OtherRegisters(c, name)
    \/ \E d \in Datasets : SaveDataset(d)
    \/ NewInstance \/ Migrated \/ Migrates \/ Stops \/ Teardown
    \/ \E key \in Keys, name \in Names : Setup(key, name)

\* A repo that has been set up with key and name, made requests ago.
InitAt(key, name, made) ==
    /\ reg \in [Names -> {None}]
    /\ hs = [c \in Callers |-> NoRequest]
    /\ disk = [name |-> name, id |-> key, key |-> key]
    /\ cfg = None /\ owner = None
    /\ store = [peers |-> [i \in IDs |-> None], keys |-> {}]
    /\ refs = [d \in Datasets |-> None]
    /\ book = [disk |-> None, inst |-> None, repo |-> None, one |-> TRUE]
    /\ task = [t \in Threads |-> NoTask]
    /\ calls = made /\ tried = {} /\ spare = Keys \ {key}

\* A repo of configuration revision rev, whose program is to be started.
IdentityInit(rev, addrs, failed, key, name, made) == MigrateInit(rev, addrs, failed) /\ InitAt(key, name, made)

\* The user starts the program again while it is to be migrated, and lets it.
Fair ==
    /\ WF_identityVars(NewInstance /\ file.rev # CurrentConfigRevision) /\ WF_identityVars(Migrates /\ MigrateStep)
    /\ SF_identityVars(ZeroToOne /\ UNCHANGED idVars) /\ SF_identityVars(OneToTwo /\ UNCHANGED idVars)
    /\ SF_identityVars(TwoToThree /\ UNCHANGED idVars)

-----------------------------------------------------------------------------
\* A signup can be repeated until it succeeds. When CreateProfile returns without an
\* error, and since all of them last agreed no other username has been in play and the
\* references could be listed, the configuration in memory and on disk, the owner of
\* the profile store and his entry in it, the author's log and every reference have the
\* new name, whatever attempts at the same name failed, or died, before: the
\* configuration, by which a retry tells what is left to rename, changes last
\* (updateConfig, lib/registry.go; ModifyRepoUsername, base/ref.go).  A list that fails
\* is excepted because its error is dropped (base/ref.go:109): that signup succeeds,
\* the references keep the old name, and no repetition finds anything to rename.
SignupRepairs ==
    [][ \A t \in Threads :
          LET name == task[t].name IN
          (task[t].op = "CreateProfile" /\ task[t].at = "config" /\ tried \subseteq {name}
             /\ task'[t].op = "none" /\ fails' = fails)
          => /\ cfg'.name = name /\ disk'.name = name /\ owner'.name = name
             /\ store'.peers[owner'.id] = name /\ owner'.id \in store'.keys
             /\ book'.disk.author = name
             /\ \A d \in Datasets : refs'[d] \in {None, name} ]_identityVars

=============================================================================
