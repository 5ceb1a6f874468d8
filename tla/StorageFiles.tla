---------------------------- MODULE StorageFiles ----------------------------
(* The files under one folder of storage/lib: bytes in two buckets, one row   *)
(* per path in the index. An upload and a removal of a resource               *)
(* (runtime/resource.ts) race the clearing of the folder, page after page     *)
(* (core/storage.ts clear, db/objects.ts objectsUnder). The pattern of a page *)
(* also lets through rows of folders whose name differs where the pattern has *)
(* a wildcard: these are dropped after the page is cut.                       *)
EXTENDS Integers, FiniteSets

CONSTANTS
    Paths,            \* every row, in the order of their paths
    Own,              \* the paths under the folder
    Writers,          \* calls of upload and remove
    PageSize,         \* CLEARED_PAGE_SIZE
    MaxPages,         \* bound: pages a clearing reads
    MaxStorageFaults  \* bound: calls of a bucket or of the index that fail

StorageAssumption ==
    /\ Paths \subseteq Nat \ {0} /\ IsFiniteSet(Paths) /\ Own \subseteq Paths
    /\ PageSize \in Nat \ {0} /\ MaxPages \in Nat /\ MaxStorageFaults \in Nat

VARIABLES
    row,      \* per path: the visibility its row has, or "none"
    bytes,    \* per bucket: the paths it has bytes for
    writer,   \* per call: what it does, where it is, and the visibility it displaces
    clear,    \* the clearing: its step, its page, the path it reads after, and whether it
              \* has passed a page of rows of other folders
    mixed,    \* paths two calls were on at once
    storageFaults

storageVars == <<row, bytes, writer, clear, mixed, storageFaults>>

Buckets == {"public", "private"}
Fault == storageFaults < MaxStorageFaults /\ storageFaults' = storageFaults + 1
May(ok) == IF ok THEN UNCHANGED storageFaults ELSE Fault
Resting == [pc |-> "idle", path |-> 0, in |-> "public", displaced |-> "none"]
NoClear == [pc |-> "idle", page |-> {}, after |-> 0, from |-> 0, full |-> FALSE, pages |-> 0,
            passed |-> FALSE]

Init ==
    /\ row = [p \in Paths |-> "public"]
    /\ bytes = [b \in Buckets |-> IF b = "public" THEN Paths ELSE {}]
    /\ writer = [w \in Writers |-> Resting]
    /\ clear = NoClear /\ mixed = {} /\ storageFaults = 0

Busy(p) == {w \in Writers : writer[w].path = p /\ writer[w].pc \in {"bytes", "read", "record", "displace", "unlink", "forget"}}
Clearing == clear.pc \notin {"idle", "done", "failed"}
Enter(w, p, step, b) ==
    /\ writer[w].pc = "idle" /\ p \in Own
    /\ writer' = [writer EXCEPT ![w] = [pc |-> step, path |-> p, in |-> b, displaced |-> "none"]]
    /\ mixed' = IF Busy(p) # {} \/ Clearing THEN mixed \union {p} ELSE mixed
    /\ UNCHANGED <<row, bytes, clear, storageFaults>>

Upload(w, p, b) == Enter(w, p, "bytes", b)
Remove(w, p, b) == Enter(w, p, "unlink", b)

\* One call of the bucket, or of the index, of the writer.
Step(w, pc, next, ok) ==
    /\ writer[w].pc = pc /\ May(ok)
    /\ writer' = [writer EXCEPT ![w].pc = IF ok THEN next
                                          ELSE IF pc = "displace" THEN "stray" ELSE "failed"]
    /\ UNCHANGED <<clear, mixed>>

Store(w, ok) ==
    /\ Step(w, "bytes", "read", ok) /\ UNCHANGED row
    /\ bytes' = [bytes EXCEPT ![writer[w].in] = IF ok THEN @ \union {writer[w].path} ELSE @]

\* Mutant of ReadRow: the copy in the other bucket is not looked for.
ReadRowUnlooked(w) ==
    /\ writer[w].pc = "read"
    /\ LET old == row[writer[w].path] IN
       writer' = [writer EXCEPT ![w].pc = "record",
                    ![w].displaced = "none"]
    /\ UNCHANGED <<row, bytes, clear, mixed, storageFaults>>

\* Mutant of ReadRow: the visibility it has just written counts as another.
ReadRowOfItsOwn(w) ==
    /\ writer[w].pc = "read"
    /\ LET old == row[writer[w].path] IN
       writer' = [writer EXCEPT ![w].pc = "record",
                    ![w].displaced = old]
    /\ UNCHANGED <<row, bytes, clear, mixed, storageFaults>>

\* recordObject looks for the visibility it is about to displace, then upserts. An index
\* that fails leaves the bytes.
ReadRow(w) ==
    /\ writer[w].pc = "read"
    /\ LET old == row[writer[w].path] IN
       writer' = [writer EXCEPT ![w].pc = "record",
                    ![w].displaced = IF old = writer[w].in THEN "none" ELSE old]
    /\ UNCHANGED <<row, bytes, clear, mixed, storageFaults>>

Record(w, ok) ==
    /\ Step(w, "record", IF writer[w].displaced = "none" THEN "stored" ELSE "displace", ok)
    /\ row' = [row EXCEPT ![writer[w].path] = IF ok THEN writer[w].in ELSE @]
    /\ UNCHANGED bytes

\* The copy in the other bucket goes; nobody looks whether it did.
Displace(w, ok) ==
    /\ Step(w, "displace", "stored", ok) /\ UNCHANGED row
    /\ bytes' = [bytes EXCEPT ![writer[w].displaced] = IF ok THEN @ \ {writer[w].path} ELSE @]

Unlink(w, ok) ==
    /\ Step(w, "unlink", "forget", ok) /\ UNCHANGED row
    /\ bytes' = [bytes EXCEPT ![writer[w].in] = IF ok THEN @ \ {writer[w].path} ELSE @]

\* A removal that forgets the row of another visibility ends as "astray".
ForgetRow(w, ok) ==
    /\ Step(w, "forget", IF row[writer[w].path] \in {writer[w].in, "none"} THEN "removed" ELSE "astray", ok)
    /\ UNCHANGED bytes
    /\ row' = [row EXCEPT ![writer[w].path] = IF ok THEN "none" ELSE @]

Clear ==
    /\ clear.pc = "idle" /\ clear' = [clear EXCEPT !.pc = "page"]
    /\ mixed' = mixed \union {p \in Own : Busy(p) # {}}
    /\ UNCHANGED <<row, bytes, writer, storageFaults>>

Lowest(n, ps) == {p \in ps : Cardinality({q \in ps : q < p}) < n}
\* Mutant of Page: a page is full when what is kept of it fills one.
PageByKept(after) ==
    LET rows == Lowest(PageSize + 1, {p \in Paths : row[p] # "none" /\ p > after})
        full == Cardinality(rows \intersect Own) > PageSize
        kept == rows \intersect Own IN
    [objects |-> IF full THEN Lowest(PageSize, kept) ELSE kept, full |-> full]

\* objectsUnder asks for one row more than a page; the page is full when it came. Of a full
\* page that is all of neighbours nothing is kept, and there is no path to go on from.
Page(after) ==
    LET rows == Lowest(PageSize + 1, {p \in Paths : row[p] # "none" /\ p > after})
        full == Cardinality(rows) > PageSize
        kept == rows \intersect Own IN
    [objects |-> IF full THEN Lowest(PageSize, kept) ELSE kept, full |-> full]

Last(page) == IF page = {} THEN 0 ELSE CHOOSE p \in page : \A q \in page : q <= p

ReadPage ==
    /\ clear.pc = "page" /\ clear.pages < MaxPages
    /\ LET page == Page(clear.after) IN
       clear' = [pc |-> "remove", page |-> page.objects, full |-> page.full,
                 from |-> clear.after, after |-> Last(page.objects), pages |-> clear.pages + 1,
                 passed |-> clear.passed \/ (page.full /\ page.objects = {}
                              /\ Cardinality({p \in Paths \ Own : row[p] # "none"}) > PageSize)]
    /\ UNCHANGED <<row, bytes, writer, mixed, storageFaults>>

\* Each path leaves the bucket its row names as the bucket is asked, then the index.
RemoveBytes(ok) ==
    /\ clear.pc = "remove" /\ (ok \/ clear.page # {}) /\ May(ok)
    /\ bytes' = [b \in Buckets |-> IF ok THEN bytes[b] \ {p \in clear.page : row[p] = b}
                                         ELSE bytes[b]]
    /\ clear' = [clear EXCEPT !.pc = IF ok THEN "drop" ELSE "failed"]
    /\ UNCHANGED <<row, writer, mixed>>

DropRows(ok) ==
    /\ clear.pc = "drop" /\ (ok \/ clear.page # {}) /\ May(ok)
    /\ row' = [p \in Paths |-> IF ok /\ p \in clear.page THEN "none" ELSE row[p]]
    /\ clear' = [clear EXCEPT !.pc = IF ~ok THEN "failed" ELSE IF clear.full THEN "page" ELSE "done"]
    /\ UNCHANGED <<bytes, writer, mixed>>

\* A row of another folder is removed.
Neighbour(p) ==
    /\ p \in Paths \ Own /\ row[p] # "none"
    /\ row' = [row EXCEPT ![p] = "none"] /\ bytes' = [b \in Buckets |-> bytes[b] \ {p}]
    /\ UNCHANGED <<writer, clear, mixed, storageFaults>>

Next ==
    \/ \E w \in Writers :
        \/ ReadRow(w)
        \/ \E p \in Own, b \in Buckets : Upload(w, p, b) \/ Remove(w, p, b)
        \/ \E ok \in BOOLEAN : Store(w, ok) \/ Record(w, ok) \/ Displace(w, ok)
                               \/ Unlink(w, ok) \/ ForgetRow(w, ok)
    \/ Clear \/ ReadPage \/ \E ok \in BOOLEAN : RemoveBytes(ok) \/ DropRows(ok)
    \/ \E p \in Paths : Neighbour(p)

Spec == Init /\ [][Next]_storageVars

-----------------------------------------------------------------------------
TypeOK ==
    /\ row \in [Paths -> Buckets \union {"none"}] /\ bytes \in [Buckets -> SUBSET Paths]
    /\ writer \in [Writers -> [pc : {"idle", "bytes", "read", "record", "displace", "unlink", "forget",
                                    "stored", "removed", "astray", "stray", "failed"},
                              path : Own \union {0}, in : Buckets, displaced : Buckets \union {"none"}]]
    /\ \A w \in Writers : writer[w].displaced # writer[w].in
    /\ clear \in [pc : {"idle", "page", "remove", "drop", "done", "failed"}, page : SUBSET Own,
                  after : Own \union {0}, from : Own \union {0}, full : BOOLEAN, pages : 0..MaxPages,
                  passed : BOOLEAN]
    /\ mixed \subseteq Own /\ storageFaults \in 0..MaxStorageFaults

On(p) == {w \in Writers : writer[w].path = p}

\* With no call on a path, its row and its bytes agree: the bucket its row names has them
\* and the other does not. What leaves bytes nobody can list, or a row of bytes that are
\* gone, is a call that failed, two calls at once, or a removal through a resource whose
\* visibility is no longer the one of the row (resource.ts upload, removeMany).
RowsAndBytesAgree ==
    \A p \in Own \ mixed :
        Busy(p) = {} /\ clear.pc \in {"idle", "done"}
        => \/ \A b \in Buckets : p \in bytes[b] <=> row[p] = b
           \/ \E w \in On(p) : writer[w].pc \in {"failed", "stray", "astray"}

\* A clearing that answers Ok leaves nothing of its folder, but for what was uploaded
\* meanwhile or since. It reads one page more than its folder has files at most; it starts
\* over, for as long as nothing changes, only past a full page of rows that are all of
\* neighbours, which the LIKE lets through (core/storage.ts clear). That exception is the
\* code's and not the comments': db/objects.ts:131 and 148-150 have the cursor be the last
\* path answered, kept or not, for this very case, and core/storage.ts:236-239 has a folder
\* of any size empty, but objectsUnder takes the last of what it kept (177-181), and null
\* of a page it kept nothing of, from which clear asks for the same page again.
ClearEmptiesTheFolder ==
    /\ clear.pc = "done" => \A p \in Own : On(p) = {} =>
          row[p] = "none" /\ \A b \in Buckets : p \notin bytes[b]
    /\ clear.pages > 1 /\ (clear.from = 0 \/ clear.pages > Cardinality(Own) + 1)
       => clear.passed

-----------------------------------------------------------------------------
(* Why those hold, of a path no two calls were on at once and no call left    *)
(* behind: one call is on it at most, and none while the folder is cleared.   *)

Other(b) == IF b = "public" THEN "private" ELSE "public"
Broken(p) == \E w \in On(p) : writer[w].pc \in {"failed", "stray", "astray"}
Agreed(p) == \A b \in Buckets : p \in bytes[b] <=> row[p] = b
Apart(p, b) == p \in bytes[b] <=> row[p] = b

Alone ==
    /\ \A w \in Writers : writer[w].pc = "idle" <=> writer[w].path = 0
    /\ \A p \in Own \ mixed :
        /\ \A w, x \in Busy(p) : w = x
        /\ Clearing => Busy(p) = {}

\* How far the call that is on a path has got with it.
OnItsWay(r) ==
    /\ r.pc \in {"bytes", "unlink"} => Agreed(r.path)
    /\ r.pc \in {"read", "record", "displace"} => r.path \in bytes[r.in]
    /\ r.pc \in {"read", "record"} => Apart(r.path, Other(r.in))
    /\ r.pc = "record" => r.displaced = IF row[r.path] = r.in THEN "none" ELSE row[r.path]
    /\ r.pc = "displace" => row[r.path] = r.in /\ r.displaced # "none"
    /\ r.pc = "forget" => r.path \notin bytes[r.in] /\ Apart(r.path, Other(r.in))

Followed(p) ==
    /\ \A w \in Busy(p) : OnItsWay(writer[w])
    /\ Busy(p) = {} /\ clear.pc \in {"idle", "page", "remove", "done"} => Agreed(p)
    /\ clear.pc = "drop" => IF p \in clear.page THEN \A b \in Buckets : p \notin bytes[b]
                                               ELSE Agreed(p)
Following == clear.pc # "failed" => \A p \in Own \ mixed : ~Broken(p) => Followed(p)

\* What nobody touched is gone up to where the clearing has read, or is on its page.
SweptAt(p) ==
    /\ clear.pc = "page" /\ p <= clear.after => row[p] = "none"
    /\ clear.pc \in {"remove", "drop"} /\ (p <= clear.after \/ ~clear.full) =>
          row[p] = "none" \/ p \in clear.page
    /\ clear.pc = "done" => row[p] = "none"
Swept == \A p \in Own : On(p) = {} => p \notin mixed /\ SweptAt(p)

\* A clearing that passes no page of other folders reads a path further each time.
Advancing ==
    /\ clear.pc = "idle" => clear = NoClear
    /\ clear.pc \in {"remove", "drop"} => clear.pages > 0
    /\ ~clear.passed =>
        /\ clear.pc = "page" \/ (clear.pc \in {"remove", "drop"} /\ clear.full) =>
              clear.pages <= Cardinality({p \in Own : p <= clear.after})
        /\ clear.pages <= Cardinality(Own) + 1
        /\ clear.pages > 1 => clear.from # 0

IInv == TypeOK /\ Alone /\ Following /\ Swept /\ Advancing
=============================================================================
