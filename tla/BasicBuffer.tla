----------------------------- MODULE BasicBuffer -----------------------------
(***************************************************************************)
(* Helium::BasicBuffer (src/Foundation/SmartBuffer/BasicBuffer.cpp): a     *)
(* growable byte buffer with m_Size bytes used out of m_Capacity.  Every   *)
(* Add, Reserve and Pad call checks the capacity, grows by the requested   *)
(* amount, then copies or zero-fills at m_Size and advances it; the        *)
(* pointer reservations of a 64-bit layout are padded to 8 bytes first.    *)
(*                                                                         *)
(* Bytes are abstracted to counts: `filled` is how many bytes from the     *)
(* start of m_Data some call has written (memcpy, memset, fread, AddU8).   *)
(* GrowBy, GetPlatformPtrSize, Write and the fixup tables are in           *)
(* SmartBuffer headers that are not in this source: GrowBy(n) adds n to    *)
(* the capacity, the pointer size is 4 or 8 by build, and the fixups       *)
(* carry no state the properties read.                                     *)
(***************************************************************************)
EXTENDS Integers, Sequences, SequencesExt, Bitwise

CONSTANTS
  DataSizes,   \* byte counts of AddBuffer / AddI8..AddU64 / AddF16 calls
  FileSizes,   \* sizes of files given to AddFile
  Aligns,      \* align_size arguments of PadToArb
  MaxSize      \* bound on m_Size, far below 2^32

ASSUME /\ DataSizes \subseteq Nat \ {0} /\ FileSizes \subseteq Nat
       /\ Aligns \subseteq Nat \ {0}

VARIABLES
  size,      \* m_Size
  capacity,  \* m_Capacity
  ptrSize,   \* GetPlatformPtrSize() of the build
  last,      \* [at, len, ptr] of the block the last call returned or wrote
  filled     \* length of the prefix of m_Data that calls have written

vars == <<size, capacity, ptrSize, last, filled>>

TypeOK ==
  /\ size \in 0 .. MaxSize /\ capacity \in Nat /\ ptrSize \in {4, 8}
  /\ last \in [at : 0 .. MaxSize, len : 0 .. MaxSize, ptr : {0, 4, 8}]
  /\ filled \in 0 .. MaxSize

Init ==
  /\ size = 0 /\ capacity = 0
  /\ ptrSize \in {4, 8}
  /\ last = [at |-> 0, len |-> 0, ptr |-> 0]
  /\ filled = 0

-----------------------------------------------------------------------------
(* The buffer as a value [size, capacity, filled], for operations that    *)
(* call other operations.                                                 *)
Now == [size |-> size, capacity |-> capacity, filled |-> filled]

(* The written prefix after n bytes are written at offset at: it grows    *)
(* only when the write starts inside or right after it.                  *)
Wrote(f, at, n) == IF at <= f /\ f < at + n THEN at + n ELSE f

GrowBy(c, n) == c + n

(* Mutant of Grow: the capacity is set to the request instead of grown by *)
(* it.                                                                    *)
GrowToRequest(st, n) ==
  IF n + st.size > st.capacity THEN [st EXCEPT !.capacity = n] ELSE st

(* The check every writer makes: if ((n + m_Size) > m_Capacity) GrowBy(n). *)
Grow(st, n) ==
  IF n + st.size > st.capacity THEN [st EXCEPT !.capacity = GrowBy(@, n)] ELSE st

(* AddBuffer(const u8*, size) and Reserve(size): check, copy or zero-fill *)
(* n bytes at m_Size, advance m_Size by n.                                *)
Put(st, n) == [Grow(st, n) EXCEPT !.size = @ + n, !.filled = Wrote(@, st.size, n)]

(* AddPad: grow by pad_length, then AddU8(0) pad_length times.            *)
Pad(st, n) == FoldLeft(LAMBDA s, i : Put(s, 1), Grow(st, n), [i \in 1 .. n |-> i])

(* PadToArb: pad_length = align - m_Size % align; padded unless it equals *)
(* align.                                                                 *)
PadTo(st, a) ==
  LET p == a - (st.size % a) IN IF p # a THEN Pad(st, p) ELSE st

(* Mutant of PtrSizeOf/ReservePtr: the 8-byte test reads the argument     *)
(* before 0 is replaced by the platform pointer size.                     *)
ReservePtrTestsArgument(st, n, ps) ==
  LET n0 == IF n = 0 THEN ps ELSE n
      s1 == IF n = 8 THEN PadTo(st, 8) ELSE st
  IN  [st |-> Put(s1, n0), at |-> s1.size, len |-> n0]

(* ReservePointer(size): 0 means the platform pointer size; an 8-byte     *)
(* pointer is first aligned with PadToArb(8); then Reserve(size).         *)
ReservePtr(st, n, ps) ==
  LET n0 == IF n = 0 THEN ps ELSE n
      s1 == IF n0 = 8 THEN PadTo(st, 8) ELSE st
  IN  [st |-> Put(s1, n0), at |-> s1.size, len |-> n0]

(* Sets m_Size, m_Capacity and the written prefix from a buffer value.    *)
Set(st) == size' = st.size /\ capacity' = st.capacity /\ filled' = st.filled

Within(n) == size + n <= MaxSize

-----------------------------------------------------------------------------
(* AddBuffer(buffer, size), AddBuffer(SmartBufferPtr) and AddI8 .. AddU64, *)
(* AddF16: n bytes appended; the offset they start at is returned.         *)
AddBuffer(n) ==
  /\ Within(n)
  /\ Set(Put(Now, n))
  /\ last' = [at |-> size, len |-> n, ptr |-> 0]
  /\ UNCHANGED ptrSize

AddFile(filesize, read) ==
  /\ Within(filesize)
  /\ Set([Grow(Now, filesize) EXCEPT !.size = @ + read,
                                      !.filled = Wrote(@, size, read)])
  /\ last' = [at |-> size, len |-> read, ptr |-> 0]
  /\ UNCHANGED ptrSize

(* AddF32 / AddF64 (w bytes each, through AddU32 / AddU64) of k floats in  *)
(* order: AddVector3 and the AddVector4 overloads return the offset of     *)
(* the first.  The negative-zero test changes bits, not the byte count.    *)
AddFloats(w, k) ==
  /\ Within(w * k)
  /\ Set(FoldLeft(LAMBDA st, j : Put(st, w), Now, [j \in 1 .. k |-> j]))
  /\ last' = [at |-> size, len |-> w * k, ptr |-> 0]
  /\ UNCHANGED ptrSize

(* AddAtLocI8 .. AddAtLocU64, AddAtLocF32, AddAtLocF64: Write(destination, *)
(* ...) of w bytes at an offset inside the buffer; m_Size and m_Capacity  *)
(* do not change.                                                         *)
AddAtLoc(w, at) ==
  /\ at + w <= size
  /\ last' = [at |-> at, len |-> w, ptr |-> 0]
  /\ filled' = Wrote(filled, at, w)
  /\ UNCHANGED <<size, capacity, ptrSize>>

AddPad(n) ==
  /\ Within(n)
  /\ Set(Pad(Now, n))
  /\ UNCHANGED <<ptrSize, last>>

PadToArb(a) ==
  /\ Within(a)
  /\ Set(PadTo(Now, a))
  /\ UNCHANGED <<ptrSize, last>>

SetCapacity(c) ==
  /\ capacity' = IF c > capacity THEN GrowBy(capacity, c - capacity) ELSE capacity
  /\ UNCHANGED <<size, ptrSize, last, filled>>

(* Reserve(size) and Reserve(loc, size), and ReserveOffset (4 bytes): the *)
(* location before the zero-filled bytes is returned.                     *)
Reserve(n) ==
  /\ Within(n)
  /\ Set(Put(Now, n))
  /\ last' = [at |-> size, len |-> n, ptr |-> 0]
  /\ UNCHANGED ptrSize

(* WritePointer, WritePointer32 and WritePointer64: ReservePointer with   *)
(* size 0, 4 and 8, before the fixup is added.                            *)
ReservePointer(n) ==
  LET r == ReservePtr(Now, n, ptrSize) IN
  /\ Within(8 + 8)
  /\ Set(r.st)
  /\ last' = [at |-> r.at, len |-> r.len, ptr |-> r.len]
  /\ UNCHANGED ptrSize

Next ==
  \/ \E n \in DataSizes : AddBuffer(n)
  \/ \E f \in FileSizes : \E r \in 0 .. f : AddFile(f, r)
  \/ \E w \in {4, 8} : AddFloats(w, 1)
  \/ \E k \in {3, 4} : AddFloats(4, k)
  \/ \E w \in {1, 2, 4, 8}, at \in 0 .. MaxSize : AddAtLoc(w, at)
  \/ \E n \in DataSizes : AddPad(n)
  \/ \E a \in Aligns : PadToArb(a)
  \/ \E c \in 0 .. MaxSize : SetCapacity(c)
  \/ \E n \in {4, 8} : Reserve(n)
  \/ \E n \in {0, 4, 8} : ReservePointer(n)

Spec == Init /\ [][Next]_vars

-----------------------------------------------------------------------------
(* WithinCapacity: every Add, Pad and Reserve call grows the allocation    *)
(* before it writes, so the bytes in use never exceed m_Capacity, across   *)
(* AddPad's per-byte AddU8 calls, the growth by the full file size before  *)
(* a short fread, and SetCapacity.                                         *)
WithinCapacity == size <= capacity

(* PointersAligned: an 8-byte pointer reserved by ReservePointer (and the  *)
(* WritePointer calls) starts at an offset that is a multiple of 8,        *)
(* whatever was written before it.                                         *)
PointersAligned == last.ptr = 8 => last.at % 8 = 0

====
