------------------------------- MODULE LfsPair -------------------------------
(***************************************************************************)
(* A metadata pair of littlefs under power loss (lib/littlefs/lfs2.c): the *)
(* two flash blocks that hold a directory of the Pico's file system, here  *)
(* the root, blocks 0 and 1.  A change is appended to the live block as a  *)
(* commit that ends in a CRC; when that block is full or not known to be   *)
(* erased the whole directory is written to the other block under the next *)
(* revision.  Mounting must find the directory again whatever step the     *)
(* power went at: _boot.py formats a file system that does not mount.      *)
(*                                                                         *)
(* A block is its revision, its valid commits and what follows them.  The  *)
(* step that begins an erase or a write leaves the block as a power loss   *)
(* in the middle of it may; the next step completes it.                    *)
(***************************************************************************)
EXTENDS Naturals, SequencesExt

CONSTANTS Files, Values,
          Room,        \* commits that fit in a block
          Revisions    \* 2^w, the values of a revision count

ASSUME LfsPairAssumption ==
    Room \in Nat \ {0} /\ Revisions \in Nat /\ Revisions >= 4

Revs == 0 .. Revisions - 1
PairBlocks == {0, 1}

\* A commit sets some files; a directory gives every file its value.
Directories == [Files -> Values]

VARIABLES pair_disk,        \* rev, log and rest of each block
          dir,         \* lfs2_mdir_t: the live block, its rev, erased
          pair_op,          \* what the driver is in the middle of
          asked,       \* the change being committed, empty when none is
          acked        \* history: the directory that callers know of

pairVars == <<pair_disk, dir, pair_op, asked, acked>>

NoChange == [f \in {} |-> 0]
Over(d, c) == [f \in Files |-> IF f \in DOMAIN c THEN c[f] ELSE d[f]]

\* The directory that a log of commits amounts to.
Content(log) ==
    [f \in Files |->
       LET i == Max({j \in DOMAIN log : f \in DOMAIN log[j]}) IN log[i][f]]

\* A file system after lfs2_rawformat, not mounted.
PairInit == /\ \E d \in Directories :
                 /\ pair_disk = [b \in PairBlocks |->
                              [rev |-> b, log |-> <<d>>, rest |-> "erased"]]
                 /\ acked = d
            /\ dir = [pair |-> 0, rev |-> 0, erased |-> FALSE]
            /\ pair_op = "off" /\ asked = NoChange
-----------------------------------------------------------------------------
\* Mutant of Newer: revisions are compared as they stand.
NewerPlain(a, b) == a > b

\* lfs2_scmp(a, b) > 0: the difference as a signed number.
Newer(a, b) == (a + Revisions - b) % Revisions \in 1 .. Revisions \div 2 - 1

\* lfs2_dir_fetchmatch: the block of the newer revision, or the other one
\* when that has no valid commit.
Fetched ==
    LET r == IF Newer(pair_disk[1].rev, pair_disk[0].rev) THEN 1 ELSE 0 IN
    IF pair_disk[r].log # <<>> THEN r ELSE 1 - r

\* The directory can be read at all, and what it reads as.
Readable == pair_disk[Fetched].log # <<>>
PairOnDisk == Content(pair_disk[Fetched].log)

\* A directory is read: mounting, and every search for a path.  The forward
\* CRC of the last commit tells whether what follows is still erased.
Fetch ==
    /\ pair_op \in {"off", "idle"} /\ Readable
    /\ dir' = [pair |-> Fetched, rev |-> pair_disk[Fetched].rev,
               erased |-> pair_disk[Fetched].rest = "erased"]
    /\ pair_op' = "idle" /\ asked' = NoChange
    /\ acked' = PairOnDisk
    /\ UNCHANGED pair_disk

\* lfs2_dir_relocatingcommit with a change c: to the live block when it is
\* erased and has room, else to the other.
CommitPair(c) ==
    /\ pair_op = "idle"
    /\ asked' = c
    /\ pair_op' = IF dir.erased /\ Len(pair_disk[dir.pair].log) < Room
               THEN "append" ELSE "erase"
    /\ UNCHANGED <<pair_disk, dir, acked>>
-----------------------------------------------------------------------------
\* The commit goes out to the live block; before its CRC it is not valid.
\* Over what is not erased, after an error, it will not read back.
AppendBegins ==
    /\ pair_op = "append"
    /\ pair_disk' = [pair_disk EXCEPT ![dir.pair].rest = "torn"]
    /\ pair_op' = IF pair_disk[dir.pair].rest = "erased" THEN "crc"
                  ELSE "erase"
    /\ UNCHANGED <<dir, asked, acked>>

\* lfs2_dir_commitcrc: the last part is written and reads back well.
AppendEnds ==
    /\ pair_op = "crc"
    /\ pair_disk' = [pair_disk EXCEPT ![dir.pair].log = Append(@, asked),
                            ![dir.pair].rest = "erased"]
    /\ pair_op' = "written"
    /\ UNCHANGED <<dir, asked, acked>>

\* It reads back wrong: fall back to compaction.
AppendBad == /\ pair_op = "crc" /\ pair_op' = "erase"
             /\ UNCHANGED <<pair_disk, dir, asked, acked>>

\* What a power loss during an erase may leave: nothing that is valid, or the
\* first of the old commits.
HalfErased(b) ==
    {[rev |-> r, log |-> <<>>, rest |-> "torn"] : r \in Revs}
      \cup {[rev |-> b.rev, log |-> SubSeq(b.log, 1, n), rest |-> "torn"] :
              n \in 0 .. Len(b.log)}

\* lfs2_dir_compact writes to the other block of the pair.
Target == 1 - dir.pair

\* lfs2_bd_erase.
EraseBegins ==
    /\ pair_op = "erase"
    /\ \E b \in HalfErased(pair_disk[Target]) :
         pair_disk' = [pair_disk EXCEPT ![Target] = b]
    /\ pair_op' = "erasing"
    /\ UNCHANGED <<dir, asked, acked>>

\* An erased block reads as ones, the revision too.
EraseEnds ==
    /\ pair_op = "erasing"
    /\ pair_disk' = [pair_disk EXCEPT ![Target] = [rev |-> Revisions - 1,
                                         log |-> <<>>, rest |-> "erased"]]
    /\ pair_op' = "compact"
    /\ UNCHANGED <<dir, asked, acked>>

\* The revision and the tags go out; a revision torn in the middle may be any.
CompactBegins ==
    /\ pair_op = "compact"
    /\ \E r \in Revs :
         pair_disk' = [pair_disk EXCEPT ![Target].rev = r,
                                        ![Target].rest = "torn"]
    /\ pair_op' = "compacting"
    /\ UNCHANGED <<dir, asked, acked>>

NextRev == (dir.rev + 1) % Revisions

\* The CRC closes the one commit that holds the directory with the change,
\* and the pair is swapped.  dir->erased stays what it was.
CompactEnds ==
    /\ pair_op = "compacting"
    /\ pair_disk' = [pair_disk EXCEPT ![Target] =
                  [rev |-> NextRev, rest |-> "erased",
                   log |-> <<Over(Content(pair_disk[dir.pair].log), asked)>>]]
    /\ dir' = [dir EXCEPT !.pair = Target, !.rev = NextRev]
    /\ pair_op' = "written"
    /\ UNCHANGED <<asked, acked>>

\* The block has gone bad.  The root cannot be relocated: LFS2_ERR_NOSPC, and
\* the caller's directory stays as it was.
CompactBad ==
    /\ pair_op \in {"erasing", "compacting"}
    /\ pair_op' = "idle" /\ asked' = NoChange
    /\ UNCHANGED <<pair_disk, dir, acked>>

\* The commit returns to its caller.
Returns ==
    /\ pair_op = "written"
    /\ acked' = Over(acked, asked)
    /\ asked' = NoChange /\ pair_op' = "idle"
    /\ UNCHANGED <<pair_disk, dir>>

\* The power goes; what was being written stays as the last step left it.
PairPowerLoss ==
    /\ pair_op # "off"
    /\ pair_op' = "off"
    /\ dir' = [pair |-> 0, rev |-> 0, erased |-> FALSE]
    /\ UNCHANGED <<pair_disk, asked, acked>>

Changes == \E f \in Files, v \in Values : CommitPair([g \in {f} |-> v])

PairNext == \/ Fetch \/ Changes
            \/ AppendBegins \/ AppendEnds \/ AppendBad
            \/ EraseBegins \/ EraseEnds \/ CompactBegins \/ CompactEnds
            \/ CompactBad \/ Returns \/ PairPowerLoss

PairSpec == PairInit /\ [][PairNext]_pairVars
-----------------------------------------------------------------------------
\* Whenever the power goes, the pair mounts again: one of its blocks has a
\* valid commit.  Otherwise _boot.py would format the flash.
AlwaysMounts == Readable

\* A commit is atomic and durable: a mount at any moment would find the
\* directory that callers know of, or that with the whole change that is
\* being committed, and nothing older, whatever the revisions wrap to.
AtomicCommit == Readable => PairOnDisk \in {acked, Over(acked, asked)}

\* A running driver works on the block that a mount would choose, and would
\* read the same directory.
DriverOnLiveBlock ==
    pair_op \in {"idle", "append", "erase"} =>
      dir.pair = Fetched /\ dir.rev = pair_disk[Fetched].rev

\* A directory survives a loss of power at any write (lfs2.c:1072-1349,
\* 1553-2057): it can be mounted, with the old or the new content, and the
\* driver goes on in the block that a mount would take.
PairSurvives == AlwaysMounts /\ AtomicCommit /\ DriverOnLiveBlock
=============================================================================
