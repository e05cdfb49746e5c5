----------------------------- MODULE NvramStore -----------------------------
(***************************************************************************)
(* The NVRAM variables in the kernel's memory (nvram.c and the first part  *)
(* of nvram_linux.c of nvram_cfg): a hash table of tuples whose values lie *)
(* one after the other in nvram_buf, which user processes map.  A changed  *)
(* value is written behind the others; the space of the old one comes back *)
(* only when _nvram_commit lays out the whole table as "name=value"        *)
(* strings and nvram_rehash reads it in again.                             *)
(*                                                                         *)
(* Simplifications: names and values are atoms with a length; strings that *)
(* differ share no characters; the kmalloc of a tuple succeeds.            *)
(* Flash errors and power loss are NvramFlash's subject: here both         *)
(* partitions are written by every commit.                                 *)
(***************************************************************************)
EXTENDS Integers, Sequences, SequencesExt

CONSTANTS
    Names, Values,
    NameLen, ValLen,   \* strlen of each name and each value
    BucketOf,          \* hash(name) % ARRAYSIZE(nvram_hash), from 1
    NBuckets,          \* ARRAYSIZE(nvram_hash)
    HEADER_SIZE,       \* sizeof(struct nvram_header)
    NVRAM_SPACE,       \* size of nvram_buf and of the flash image
    Procs,             \* processes that read through the mapping
    Undefined          \* NULL: no such variable

ASSUME SizesAssumption ==
    /\ NBuckets \in Nat \ {0}
    /\ BucketOf \in [Names -> 1 .. NBuckets]
    /\ NameLen \in [Names -> Nat \ {0}]
    /\ ValLen \in [Values -> Nat]
    /\ HEADER_SIZE \in Nat /\ NVRAM_SPACE \in Nat
    /\ HEADER_SIZE + 2 <= NVRAM_SPACE
    /\ Undefined \notin Values

VARIABLES
    table,   \* nvram_hash, nvram_buf and nvram_offset
    flash,   \* the images in the two partitions
    ptr      \* ptr[p]: the pointer p got last from nvram_get, while it is good

vars == <<table, flash, ptr>>

-----------------------------------------------------------------------------
(* nvram_buf: the strings that stand whole in it, each with the offset of  *)
(* its first byte.  A string that neither a tuple nor a process points to  *)
(* cannot be read any more and is left out.                                *)

StringAt(buf, off) ==
    IF \E str \in buf : str.off = off
    THEN (CHOOSE str \in buf : str.off = off).value
    ELSE Undefined

Overlap(str, off, v) ==
    str.off <= off + ValLen[v] /\ off <= str.off + ValLen[str.value]

(* strcpy(&nvram_buf[off], v), which spoils whatever it overwrites.        *)
CopyString(buf, off, v) ==
    {str \in buf : ~Overlap(str, off, v)} \cup {[off |-> off, value |-> v]}

-----------------------------------------------------------------------------
(* The table s: hash[b] is the list of tuples of bucket b.                 *)

EmptyTable ==
    [hash |-> [i \in 1 .. NBuckets |-> <<>>], buf |-> {}, offset |-> 0]

(* Mutant: the bucket's first tuple is taken without comparing its name.   *)
PositionUnchecked(s, n) == IF s.hash[BucketOf[n]] = <<>> THEN 0 ELSE 1

Position(s, n) == SelectInSeq(s.hash[BucketOf[n]], LAMBDA t : t.name = n)

_nvram_get(s, n) ==
    IF Position(s, n) = 0 THEN Undefined
    ELSE StringAt(s.buf, s.hash[BucketOf[n]][Position(s, n)].off)

(* Mutant: no room is asked for the NUL.                                   *)
RoomNoNul(s, v) == s.offset + ValLen[v] <= NVRAM_SPACE

(* _nvram_realloc: is there room behind the last value?                    *)
Room(s, v) == s.offset + ValLen[v] + 1 <= NVRAM_SPACE

(* Mutant: the NUL is not counted when the offset moves on.                *)
SetNoNul(s, n, v) ==
    LET i == Position(s, n)
        tuple == [name |-> n, off |-> s.offset]
    IN  IF _nvram_get(s, n) = v THEN s
        ELSE [hash   |-> [s.hash EXCEPT ![BucketOf[n]] =
                            IF i = 0 THEN Cons(tuple, @) ELSE ReplaceAt(@, i, tuple)],
              buf    |-> CopyString(s.buf, s.offset, v),
              offset |-> s.offset + ValLen[v]]

(* Mutant: a new value that is no longer overwrites the old one.           *)
SetInPlace(s, n, v) ==
    LET i == Position(s, n)
        old == s.hash[BucketOf[n]][i].off
        tuple == [name |-> n, off |-> s.offset]
    IN  IF _nvram_get(s, n) = v THEN s
        ELSE IF i # 0 /\ ValLen[v] <= ValLen[_nvram_get(s, n)]
        THEN [s EXCEPT !.buf = CopyString(@, old, v)]
        ELSE [hash   |-> [s.hash EXCEPT ![BucketOf[n]] =
                            IF i = 0 THEN Cons(tuple, @) ELSE ReplaceAt(@, i, tuple)],
              buf    |-> CopyString(s.buf, s.offset, v),
              offset |-> s.offset + ValLen[v] + 1]

(* _nvram_set, when there is room: the same value is left alone, a new one *)
(* goes behind the last, a new tuple to the head of its bucket.            *)
_nvram_set(s, n, v) ==
    LET b == BucketOf[n]
        i == Position(s, n)
        tuple == [name |-> n, off |-> s.offset]
    IN  IF _nvram_get(s, n) = v THEN s
        ELSE [hash   |-> [s.hash EXCEPT ![b] =
                            IF i = 0 THEN Cons(tuple, @) ELSE ReplaceAt(@, i, tuple)],
              buf    |-> CopyString(s.buf, s.offset, v),
              offset |-> s.offset + ValLen[v] + 1]

(* Mutant: the bucket's first tuple is unlinked.                           *)
UnsetFirst(s, n) ==
    IF Position(s, n) = 0 THEN s
    ELSE [s EXCEPT !.hash[BucketOf[n]] = Tail(@)]

_nvram_unset(s, n) ==
    IF Position(s, n) = 0 THEN s
    ELSE [s EXCEPT !.hash[BucketOf[n]] = RemoveAt(@, Position(s, n))]

(* The buckets as a walk of the table finds them: names with their values. *)
Listing(s) ==
    [b \in 1 .. NBuckets |->
        [i \in DOMAIN s.hash[b] |->
            [name |-> s.hash[b][i].name, value |-> StringAt(s.buf, s.hash[b][i].off)]]]

Size(pair) == NameLen[pair.name] + 1 + ValLen[pair.value] + 1

(* Write "name=value" at w.at when it ends at or before w.end; the first   *)
(* string that does not fit ends its bucket, not the walk.                 *)
Put(w, pair) ==
    IF w.full \/ w.at + Size(pair) > w.end THEN [w EXCEPT !.full = TRUE]
    ELSE [w EXCEPT !.at = @ + Size(pair), !.out = Append(@, pair)]

PutBucket(w, bucket) == FoldLeft(Put, [w EXCEPT !.full = FALSE], bucket)

WriteOut(s, start, end) ==
    FoldLeft(PutBucket, [at |-> start, end |-> end, out |-> <<>>, full |-> FALSE],
             Listing(s)).out

(* nvram_rehash: forget the table, then set what the image lists.          *)
SetFrom(s, pair) ==
    IF Room(s, pair.value) THEN _nvram_set(s, pair.name, pair.value) ELSE s

nvram_rehash(image) == FoldLeft(SetFrom, EmptyTable, image)

(* Mutant: a string may not end at the end of the data area.               *)
CommitImageShort(s) == WriteOut(s, HEADER_SIZE, NVRAM_SPACE - 3)

(* _nvram_commit: the image it lays out, and the table read back from it.  *)
CommitImage(s) == WriteOut(s, HEADER_SIZE, NVRAM_SPACE - 2)

_nvram_commit(s) == nvram_rehash(CommitImage(s))

(* Mutant: only the first tuple of each bucket is listed.                  *)
GetallHeads(s, count) ==
    LET First(list) == IF list = <<>> THEN <<>> ELSE <<Head(list)>>
    IN  WriteOut([s EXCEPT !.hash = [i \in 1 .. NBuckets |-> First(@[i])]],
                 0, count - 1)

(* _nvram_getall into a buffer of count bytes, of which it keeps one.      *)
_nvram_getall(s, count) == WriteOut(s, 0, count - 1)

-----------------------------------------------------------------------------
NullPtr == [off |-> -1, value |-> Undefined]

Init ==
    /\ table = EmptyTable
    /\ flash = [primary |-> <<>>, backup |-> <<>>]
    /\ ptr = [p \in Procs |-> NullPtr]

(* A rehash moves the values: pointers handed out before are stale, and    *)
(* nothing is said of what they read.                                      *)
Moved == [p \in Procs |-> NullPtr]

Tuples(s) == UNION {Range(s.hash[b]) : b \in 1 .. NBuckets}

(* The table s is the new one, its values read by its tuples and through   *)
(* the given pointers.                                                     *)
Become(s, pointers) ==
    /\ table' = [s EXCEPT !.buf = {str \in @ :
                    \/ \E t \in Tuples(s) : t.off = str.off
                    \/ \E p \in Procs : pointers[p].off = str.off}]
    /\ ptr' = pointers

(* nvram_get of a process: the driver answers with an offset into the      *)
(* mapping, and the process reads there later, without a lock.             *)
Get(p, n) ==
    /\ Become(table, [ptr EXCEPT ![p] =
                 IF Position(table, n) = 0 THEN NullPtr
                 ELSE [off   |-> table.hash[BucketOf[n]][Position(table, n)].off,
                       value |-> _nvram_get(table, n)]])
    /\ UNCHANGED flash

(* nvram_set: without room, consolidate the space and try again; when that *)
(* does not make room either, the answer is -ENOMEM.                       *)
Set(n, v) ==
    \/ /\ Room(table, v)
       /\ Become(_nvram_set(table, n, v), ptr)
       /\ UNCHANGED flash
    \/ /\ ~Room(table, v)
       /\ LET s == _nvram_commit(table)
          IN  Become(IF Room(s, v) THEN _nvram_set(s, n, v) ELSE s, Moved)
       /\ UNCHANGED flash
    \/ /\ ~Room(table, v)
       /\ UNCHANGED vars        \* no memory to consolidate in

Unset(n) ==
    /\ Become(_nvram_unset(table, n), ptr)
    /\ UNCHANGED flash

(* Mutant: nvram_sem is released between the partitions.                   *)
CommitUnlocked ==
    LET s == _nvram_commit(table)
    IN  \E n \in Names, v \in Values :
          /\ Room(s, v)
          /\ flash' = [backup |-> CommitImage(table),
                       primary |-> CommitImage(_nvram_set(s, n, v))]
          /\ Become(_nvram_commit(_nvram_set(s, n, v)), Moved)

(* nvram_commit: _nvram_commit runs once for each partition.               *)
Commit ==
    LET s == _nvram_commit(table)
    IN  /\ flash' = [backup |-> CommitImage(table), primary |-> CommitImage(s)]
        /\ Become(_nvram_commit(s), Moved)

(* dev_nvram_init with two valid partitions: the table read from the       *)
(* primary is dropped for the one read from the backup.                    *)
Reboot ==
    /\ Become(nvram_rehash(flash.backup), Moved)
    /\ UNCHANGED flash

Next ==
    \/ \E n \in Names : Unset(n) \/ \E v \in Values : Set(n, v)
    \/ \E p \in Procs, n \in Names : Get(p, n)
    \/ Commit
    \/ Reboot

Spec == Init /\ [][Next]_vars

-----------------------------------------------------------------------------
(* Properties.                                                             *)

(* The values every variable takes.                                        *)
TypeOK ==
    /\ table.offset \in 0 .. NVRAM_SPACE
    /\ DOMAIN table.hash = 1 .. NBuckets
    /\ Tuples(table) \subseteq [name : Names, off : 0 .. NVRAM_SPACE - 1]
    /\ table.buf \subseteq [off : 0 .. NVRAM_SPACE - 1, value : Values]
    /\ \A p \in {"primary", "backup"} :
         Range(flash[p]) \subseteq [name : Names, value : Values]
    /\ DOMAIN ptr = Procs

(* The table is sound after every sequence of operations: a variable has   *)
(* one tuple, in the bucket where lookups search, and its value is a whole *)
(* string in the used part of nvram_buf that overlaps no other's.          *)
TableSound ==
    /\ \A b \in 1 .. NBuckets : \A i, j \in DOMAIN table.hash[b] :
         /\ BucketOf[table.hash[b][i].name] = b
         /\ table.hash[b][i].name = table.hash[b][j].name => i = j
    /\ \A t, u \in Tuples(table) :
         /\ StringAt(table.buf, t.off) \in Values
         /\ t.off + ValLen[StringAt(table.buf, t.off)] < table.offset
         /\ t.off = u.off => t = u

(* A pointer into the mapping reads the value it was got for, however many *)
(* sets and unsets follow, until a consolidation or a commit moves values: *)
(* a changed value is written elsewhere, and the old one left in place.    *)
PointerStable ==
    \A p \in Procs :
        ptr[p] # NullPtr => StringAt(table.buf, ptr[p].off) = ptr[p].value

MapOf(s) == [n \in Names |-> _nvram_get(s, n)]

ImageMap(image) ==
    [n \in Names |->
        LET i == SelectInSeq(image, LAMBDA pair : pair.name = n)
        IN  IF i = 0 THEN Undefined ELSE image[i].value]

(* A commit writes the partitions from two walks of the table, the second  *)
(* over buckets the first has reversed; they hold the same variables even  *)
(* when these do not all fit.                                              *)
PartitionsAgree == ImageMap(flash.primary) = ImageMap(flash.backup)

(* nvram show, with its buffer of NVRAM_SPACE bytes, lists every variable, *)
(* when all of them fit into an image.                                     *)
GetallComplete == ImageMap(_nvram_getall(table, NVRAM_SPACE)) = MapOf(table)

(* When everything fits, the table is a map to its users: consolidations   *)
(* are invisible, a set that fails changes nothing, and a reboot brings    *)
(* back what the last commit saw.                                          *)
Map == INSTANCE NvramMap WITH
    map <- MapOf(table),
    saved <- ImageMap(flash.backup)

MapSpec == Map!Spec

(* When everything fits, a variable is gone after nvram_unset of it, and   *)
(* after nvram_set of it has the new value or the one it had.  That the    *)
(* other variables keep theirs is part of MapSpec.                         *)
StepsExact ==
    [][\A n \in Names :
         LET is == _nvram_get(table', n)
         IN  /\ is # Undefined => ~Unset(n)
             /\ \A v \in Values : is \notin {v, _nvram_get(table, n)} => ~Set(n, v)]_vars

(* Even when variables do not fit, none gets the value of another: an      *)
(* operation leaves a variable its value, sets it, or loses it.            *)
NoForeignValue ==
    [][\A n \in Names :
         MapOf(table')[n] \in {MapOf(table)[n], Undefined, ImageMap(flash.backup)[n]}
         \/ \E v \in Values : Set(n, v) /\ MapOf(table')[n] = v]_vars

=============================================================================
