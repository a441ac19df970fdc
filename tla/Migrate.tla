------------------------------ MODULE Migrate ------------------------------
(***************************************************************************)
(* Starting a program on a repository whose configuration is of an earlier *)
(* revision: NewInstance reads config.yaml, RunMigrations takes it one     *)
(* revision at a time to the current one, each written beside the file and *)
(* renamed over it, and the step to revision 2 moves the IPFS repository   *)
(* of the user into the one of qri. Any step may fail, and the program may *)
(* die at any of them and be started again.                                *)
(*                                                                         *)
(* Assumed of what is outside the repository: InternalizeIPFSRepo copies   *)
(* the whole IPFS repository or returns an error, over an earlier copy     *)
(* too; os.Rename is atomic; PinsetDifference lists every pin.             *)
(***************************************************************************)
EXTENDS Integers, Sequences, FiniteSets

Seqs == INSTANCE SequencesExt

CONSTANTS
    Retired0,     \* bootstrap addresses taken out by the step to revision 1
    Retired2,     \* and by the step to revision 3
    DefaultAddrs, \* the sequence config.DefaultP2P().QriBootstrapAddrs
    MaxFails,     \* bound: steps that fail and programs that die
    None,
    Torn          \* a file whose write was cut off

CurrentConfigRevision == 3

VARIABLES
    file,     \* config.yaml: [rev, addrs]
    tmp,      \* config_updated.yaml: None, Torn or a configuration
    mem,      \* the configuration of the running program
    mpc,      \* where the start of the program is
    ipfs,     \* [old, new]: is the IPFS repository of the user there, and qri's copy
    foreign,  \* does it pin what is not a dataset of qri
    own,      \* the bootstrap addresses the user has added
    fails

migrateVars == <<file, tmp, mem, mpc, ipfs, foreign, own, fails>>

-----------------------------------------------------------------------------
\* A Go slice: the first len elements of an array it shares.
SliceSeq(sl) == SubSeq(sl.arr, 1, sl.len)

\* MUTANT: the element after i goes.
delIdxNext(i, sl) ==
    IF i < sl.len
    THEN [arr |-> [k \in DOMAIN sl.arr |-> IF k \in (i + 1)..(sl.len - 1) THEN sl.arr[k + 1] ELSE sl.arr[k]],
          len |-> sl.len - 1]
    ELSE [sl EXCEPT !.len = i - 1]

\* delIdx(i, sl): what follows is moved down in the shared array; at or past the
\* end the slice is cut, or extended, to the elements before i.
delIdx(i, sl) ==
    IF i < sl.len
    THEN [arr |-> [k \in DOMAIN sl.arr |-> IF k \in i..(sl.len - 1) THEN sl.arr[k + 1] ELSE sl.arr[k]],
          len |-> sl.len - 1]
    ELSE [sl EXCEPT !.len = i - 1]

\* One round of the loop of ZeroToOne. The range is over the slice as it was, so
\* i runs over the array the deletions have shifted.
ZeroToOneRound(s, i) ==
    LET addr == s.sl.arr[i] IN
    [sl   |-> IF addr \in Retired0 THEN delIdx(i, s.sl) ELSE s.sl,
     adds |-> SelectSeq(s.adds, LAMBDA a : a # addr)]

\* The bootstrap addresses of revision 1.
ZeroToOneAddrs(addrs) ==
    LET start == [sl |-> [arr |-> addrs, len |-> Len(addrs)], adds |-> DefaultAddrs]
        end == Seqs!FoldLeftDomain(LAMBDA s, i : ZeroToOneRound(s, i), start, addrs)
    IN  SliceSeq(end.sl) \o end.adds

\* The bootstrap addresses of revision 3.
TwoToThreeAddrs(addrs) ==
    SelectSeq(addrs, LAMBDA a : a \notin Retired2 \cup Seqs!ToSet(DefaultAddrs)) \o DefaultAddrs

-----------------------------------------------------------------------------
\* loadRepoConfig, and OptCheckConfigMigrations when the revision is not current.
LoadConfig ==
    /\ mpc = "down"
    /\ mem' = file
    /\ mpc' = IF file.rev = CurrentConfigRevision THEN "ready" ELSE "migrating"
    /\ UNCHANGED <<file, tmp, ipfs, foreign, own, fails>>

\* shouldRun is answered no: ErrNeedMigration, and the program ends.
DeclineMigration ==
    /\ mpc = "migrating" /\ mem = file
    /\ mpc' = "down"
    /\ UNCHANGED <<file, tmp, mem, ipfs, foreign, own, fails>>

\* ZeroToOne up to the write.
ZeroToOne ==
    /\ mpc = "migrating" /\ mem.rev = 0
    /\ mem' = [rev |-> 1, addrs |-> ZeroToOneAddrs(mem.addrs)]
    /\ mpc' = "writing"
    /\ UNCHANGED <<file, tmp, ipfs, foreign, own, fails>>

\* MUTANT: the configuration goes first, the repository is copied when it is written.
OneToTwoLate ==
    /\ mpc = "migrating" /\ mem.rev = 1
    /\ mem' = [mem EXCEPT !.rev = 2]
    /\ mpc' = "writing"
    /\ UNCHANGED <<file, tmp, ipfs, foreign, own, fails>>

\* MUTANT: a copy an earlier attempt has made is in the way.
OneToTwoOnce ==
    /\ mpc = "migrating" /\ mem.rev = 1 /\ ipfs.old /\ ~ipfs.new
    /\ ipfs' = [ipfs EXCEPT !.new = TRUE]
    /\ mem' = [mem EXCEPT !.rev = 2]
    /\ mpc' = "writing"
    /\ UNCHANGED <<file, tmp, foreign, own, fails>>

\* OneToTwo up to the write: the IPFS repository of the user is copied, and the
\* configuration completed (oneToTwoConfig) and validated.
OneToTwo ==
    /\ mpc = "migrating" /\ mem.rev = 1 /\ ipfs.old
    /\ ipfs' = [ipfs EXCEPT !.new = TRUE]
    /\ mem' = [mem EXCEPT !.rev = 2]
    /\ mpc' = "writing"
    /\ UNCHANGED <<file, tmp, foreign, own, fails>>

\* TwoToThree up to the write.
TwoToThree ==
    /\ mpc = "migrating" /\ mem.rev = 2
    /\ mem' = [rev |-> 3, addrs |-> TwoToThreeAddrs(mem.addrs)]
    /\ mpc' = "writing"
    /\ UNCHANGED <<file, tmp, ipfs, foreign, own, fails>>

\* A step returns its error before it writes: the copy fails, or the configuration
\* has no API or RPC section, or is not valid.
MigrationFails ==
    /\ mpc = "migrating" /\ fails < MaxFails
    /\ mpc' = "down"
    /\ fails' = fails + 1
    /\ UNCHANGED <<file, tmp, mem, ipfs, foreign, own>>

\* What follows a configuration written: the step of OneToTwo that looks at the old
\* repository, the next step, or the end of RunMigrations.
AfterWrite(rev) ==
    CASE rev = 2 -> "removing"
      [] rev = CurrentConfigRevision -> "done"
      [] OTHER -> "migrating"

\* safeWriteConfig: the new file is written beside config.yaml ...
WriteUpdated ==
    /\ mpc = "writing"
    /\ tmp' = mem
    /\ mpc' = "renaming"
    /\ UNCHANGED <<file, mem, ipfs, foreign, own, fails>>

\* ... and renamed over it.
RenameUpdated ==
    /\ mpc = "renaming"
    /\ file' = tmp
    /\ tmp' = None
    /\ mpc' = AfterWrite(mem.rev)
    /\ UNCHANGED <<mem, ipfs, foreign, own, fails>>

\* rollbackConfigWrite, after either of them failed.
rollbackConfigWrite ==
    /\ mpc \in {"writing", "renaming"} /\ fails < MaxFails
    /\ tmp' = None
    /\ mpc' = "down"
    /\ fails' = fails + 1
    /\ UNCHANGED <<file, mem, ipfs, foreign, own>>

\* maybeRemoveIPFSRepo: the repository of the user goes when the copy pins nothing
\* but what the logbook refers to, the roots IPFS itself pins and other datasets;
\* an error of it only leaves the repository where it is.
maybeRemoveIPFSRepo ==
    /\ mpc = "removing"
    /\ \/ ~foreign /\ ipfs' = [ipfs EXCEPT !.old = FALSE] /\ UNCHANGED fails
       \/ foreign /\ UNCHANGED <<ipfs, fails>>
       \/ fails < MaxFails /\ fails' = fails + 1 /\ UNCHANGED ipfs
    /\ mpc' = "migrating"
    /\ UNCHANGED <<file, tmp, mem, foreign, own>>

\* RunMigrations returns: the instance goes on, or the program ends with
\* ErrMigrationSucceeded.
RunMigrationsReturns(errorOnSuccess) ==
    /\ mpc = "done"
    /\ mpc' = IF errorOnSuccess THEN "down" ELSE "ready"
    /\ UNCHANGED <<file, tmp, mem, ipfs, foreign, own, fails>>

\* The program dies while it starts; a file it was writing is left torn.
MigrationDies ==
    /\ mpc \notin {"down", "ready"} /\ fails < MaxFails
    /\ tmp' \in IF mpc = "writing" THEN {tmp, Torn} ELSE {tmp}
    /\ mpc' = "down"
    /\ fails' = fails + 1
    /\ UNCHANGED <<file, mem, ipfs, foreign, own>>

MigrateStep ==
    \/ LoadConfig \/ ZeroToOne \/ OneToTwo \/ TwoToThree
    \/ WriteUpdated \/ RenameUpdated \/ maybeRemoveIPFSRepo
    \/ \E errorOnSuccess \in BOOLEAN : RunMigrationsReturns(errorOnSuccess)

\* A repository an earlier release left behind: its configuration of revision rev,
\* its data in the IPFS repository that release used; failed steps have failed before.
MigrateInit(rev, addrs, failed) ==
    /\ file = [rev |-> rev, addrs |-> addrs]
    /\ tmp = None
    /\ mem = [rev |-> rev, addrs |-> addrs]
    /\ mpc = "down"
    /\ foreign \in BOOLEAN
    /\ own = Seqs!ToSet(addrs) \ (Retired0 \cup Retired2 \cup Seqs!ToSet(DefaultAddrs))
    /\ ipfs \in IF rev < 2 THEN {[old |-> TRUE, new |-> FALSE]}
                ELSE {[old |-> o, new |-> TRUE] : o \in {foreign, TRUE}}
    /\ fails = failed

-----------------------------------------------------------------------------
\* Wherever the program stops, the configuration on disk is a whole one, and names
\* an IPFS repository that holds the data: config.yaml is only replaced by a rename
\* of a file that is complete, the copy is made before the configuration that uses
\* it is written, and the original goes after that; and never while it pins what is
\* not qri's (config/migrate/migrate.go).
StoreReachable ==
    /\ file # Torn
    /\ IF file.rev < 2 THEN ipfs.old ELSE ipfs.new
    /\ foreign => ipfs.old

\* However often a step fails or the program dies, once the user starts it again
\* and lets it migrate the repository is brought to the current revision: no step
\* leaves behind what the next start cannot go on from (config/migrate/migrate.go).
MigrationCompletes == <>(file.rev = CurrentConfigRevision)

\* The addresses the user added are in the migrated list, each once, and at the
\* current revision so are the default ones: the deletions in the loop of ZeroToOne
\* shift the array it ranges over, and neither they nor the merges of the defaults
\* may take out or repeat another address (config/migrate/migrate.go).
AddrsMerged ==
    LET count(a) == Cardinality({k \in DOMAIN file.addrs : file.addrs[k] = a}) IN
    /\ \A a \in own : count(a) = 1
    /\ file.rev = CurrentConfigRevision => \A a \in Seqs!ToSet(DefaultAddrs) : count(a) = 1

\* Whatever ends a migration, it leaves what it was to keep: the store where the config
\* says (StoreReachable), and the addresses (AddrsMerged).
NothingMislaid == StoreReachable /\ AddrsMerged
============================================================================
