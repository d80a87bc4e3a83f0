---------------------------- MODULE ServiceList ----------------------------
(***************************************************************************)
(* si468x_dab_get_service_list: fetch the list of DAB services into a      *)
(* buffer on the heap and build arrays of pointers into it.  The caller    *)
(* hands in the structure of the call before, or a zeroed one.  What the   *)
(* properties are about is the heap: who owns which block, what the        *)
(* pointers point to, and what is left of that when something fails.       *)
(* Once the code has undefined behaviour, the model knows no more.         *)
(* num_of_services is a byte of the reply that nobody compares with the    *)
(* room in the arrays, so a list may have more services than fit.          *)
(***************************************************************************)
EXTENDS Integers, Sequences

CONSTANTS
  ServiceSize,    \* sizeof(struct si468x_DAB_digital_service), in components
  MaxServices,    \* MAX_DAB_SERVICES_PER_ENSAMBLE: service_list has a slot
                  \* more, for the NULL at its end
  MaxComponents,  \* MAX_DAB_COMPONENTS_PER_SERVICE: so has components_list
  ByteMax,        \* what the byte num_of_services can hold
  NumCompMax,     \* what the bits of get_service2_NUM_COMP can hold
  GarbageSizes,   \* what the size may be in a buffer that was not read to
  BufferSize,     \* room for a list in tmp_buffer, in components
  MaxCalls        \* bound on the number of calls

ASSUME SizesAssumption ==
  /\ {ServiceSize, MaxServices, MaxComponents} \subseteq Nat \ {0}
  /\ {BufferSize, MaxCalls, ByteMax, NumCompMax} \subseteq Nat
  /\ GarbageSizes \subseteq Nat

\* NUM_COMP is a field of 4 bits (si468x_dab.h:86), so that 15 components are
\* the most a service can claim.  There is no such reason for the services.
ASSUME FieldAssumption == NumCompMax <= MaxComponents

VARIABLES
  pc,        \* "idle", the statement of the call it is at, or "undefined"
  (* struct dab_service_list *)
  header,    \* size of the list and number of its services
  raw,       \* raw_service_list, 0 for NULL
  filled,    \* the entries of service_list and components_list before the
             \* first NULL: where a service is, how many components it has
  (* the heap *)
  heap,      \* the blocks that are allocated
  next,      \* the next block malloc returns; addresses are not used again
  content,   \* of the block of the latest list: its component counts, size
  (* the call *)
  tmp,       \* tmp_buffer, 0 if there is none
  ptr,       \* buff_ptr - raw_service_list
  ret,       \* result of the latest call
  now,       \* what went wrong in it, a subset of {"error", "oom", "unread"}
  before,    \* what went wrong in the call before it
  calls,     \* number of calls
  ub         \* the first undefined behaviour

vars == <<pc, header, raw, filled, heap, next, content, tmp, ptr, ret, now,
          before, calls, ub>>

NoList == [size |-> 0, services |-> 0]

\* The component counts of as many services as the byte may say.
Counts == UNION {[1 .. n -> 0 .. NumCompMax] : n \in 0 .. ByteMax}

\* Size of the first n services of a list with these component counts.
SizeUpto(counts, n) ==
  LET upto[i \in 0 .. Len(counts)] ==
        IF i = 0 THEN 0 ELSE upto[i - 1] + ServiceSize + counts[i]
  IN upto[n]

\* A list that the tuner sends: its size is that of its services.
Listing(counts) ==
  [counts |-> counts, size |-> SizeUpto(counts, Len(counts))]

\* What a buffer that was not read to may look like: any byte for the number
\* of services, any bits for the components, and a size that need not be
\* theirs.
Garbage == [counts : Counts, size : GarbageSizes]

Lists == {Listing(c) : c \in Counts}

Init ==
  /\ pc = "idle" /\ header = NoList /\ raw = 0 /\ filled = <<>>
  /\ heap = {} /\ next = 1 /\ content = Listing(<<>>)
  /\ tmp = 0 /\ ptr = 0 /\ ret = "none" /\ now = {} /\ before = {}
  /\ calls = 0 /\ ub = "none"

Return(r) == pc' = "idle" /\ ret' = r

Undefined(what) == pc' = "undefined" /\ ub' = what

-----------------------------------------------------------------------------
\* Mutated form: the pointers are left to be overwritten.
Call_keep ==
  /\ pc = "idle" /\ calls < MaxCalls
  /\ pc' = "free" /\ calls' = calls + 1
  /\ now' = {} /\ before' = now
  /\ UNCHANGED <<header, raw, filled, heap, next, content, tmp, ptr, ret, ub>>

\* The pointers of the last list are cleared.
Call ==
  /\ pc = "idle" /\ calls < MaxCalls
  /\ pc' = "free" /\ calls' = calls + 1
  /\ filled' = <<>> /\ now' = {} /\ before' = now
  /\ UNCHANGED <<header, raw, heap, next, content, tmp, ptr, ret, ub>>

\* So is the list itself, but not the pointer to it.
FreeOld ==
  /\ pc = "free"
  /\ IF raw \in heap \union {0}
     THEN pc' = "exchange" /\ heap' = heap \ {raw} /\ UNCHANGED ub
     ELSE Undefined("double free") /\ UNCHANGED heap
  /\ UNCHANGED <<header, raw, filled, next, content, tmp, ptr, ret, now,
                 before, calls>>

\* The command is sent and CTS waited for, see Si468xLink.
Exchange ==
  /\ pc = "exchange"
  /\ \/ pc' = "malloc" /\ UNCHANGED <<ret, now>>
     \/ Return("error") /\ now' = now \union {"error"}
  /\ UNCHANGED <<header, raw, filled, heap, next, content, tmp, ptr, before,
                 calls, ub>>

\* Without memory for the reply si468x_dab_get_digital_service_list returns
\* the 0 of its wait, and the old header is taken for the new one.
AllocTmp ==
  /\ pc = "malloc"
  /\ \/ /\ pc' = "read"
        /\ tmp' = next /\ heap' = heap \union {next} /\ next' = next + 1
        /\ UNCHANGED <<now, ptr>>
     \/ /\ pc' = "fill" /\ ptr' = 0
        /\ now' = now \union {"oom"}
        /\ UNCHANGED <<tmp, heap, next>>
  /\ UNCHANGED <<header, raw, filled, content, ret, before, calls, ub>>

\* Nobody looks whether the read succeeded.
ReadList ==
  /\ pc = "read"
  /\ pc' = "copy"
  /\ \/ content' \in Lists /\ UNCHANGED now
     \/ content' \in Garbage /\ now' = now \union {"unread"}
  /\ header' = [size |-> content'.size, services |-> Len(content'.counts)]
  /\ UNCHANGED <<raw, filled, heap, next, tmp, ptr, ret, before, calls, ub>>

\* Mutated form: the copy is not freed when the second malloc fails.
AllocList_leak ==
  \/ /\ raw' = next /\ heap' = (heap \ {tmp}) \union {next}
     /\ next' = next + 1 /\ UNCHANGED now
  \/ /\ raw' = 0 /\ now' = now \union {"oom"}
     /\ UNCHANGED <<heap, next>>

\* malloc and free(tmp_buffer).
AllocList ==
  \/ /\ raw' = next /\ heap' = (heap \ {tmp}) \union {next}
     /\ next' = next + 1 /\ UNCHANGED now
  \/ /\ raw' = 0 /\ now' = now \union {"oom"}
     /\ heap' = heap \ {tmp} /\ UNCHANGED next

\* The list moves to a block of its own, with a memcpy of as many bytes as
\* the header says.  Without memory for it the function returns 0 as well.
CopyList ==
  /\ pc = "copy"
  /\ AllocList
  /\ IF raw' # 0 /\ header.size > BufferSize
     THEN Undefined("overread") /\ UNCHANGED ptr
     ELSE pc' = "fill" /\ ptr' = 0 /\ UNCHANGED ub
  /\ tmp' = 0
  /\ UNCHANGED <<header, filled, content, ret, before, calls>>

\* Why the next service cannot be filled in: its slot of service_list is
\* written first, then buff_ptr is used as a service, then the slots of its
\* components are written.
Invalid ==
  IF Len(filled) > MaxServices THEN "overrun"
  ELSE IF raw = 0 THEN "null"
  ELSE IF raw \notin heap THEN "freed"
  ELSE IF ptr + ServiceSize > content.size THEN "bounds"
  ELSE IF content.counts[Len(filled) + 1] > MaxComponents + 1 THEN "overrun"
  ELSE "none"

\* Mutated form: buff_ptr does not step over the components.
Advance_flat(n) == ptr + ServiceSize
\* Mutated form: it steps over one component too many.
Advance_more(n) == ptr + ServiceSize + n + 1
Advance(n) == ptr + ServiceSize + n

\* One service and its components.
Fill ==
  /\ pc = "fill" /\ Len(filled) < header.services
  /\ IF Invalid # "none"
     THEN Undefined(Invalid) /\ UNCHANGED <<filled, ptr>>
     ELSE LET n == content.counts[Len(filled) + 1]
          IN /\ filled' = Append(filled, [at |-> ptr, comps |-> n])
             /\ ptr' = Advance(n)
             /\ UNCHANGED <<pc, ub>>
  /\ UNCHANGED <<header, raw, heap, next, content, tmp, ret, now, before,
                 calls>>

Filled ==
  /\ pc = "fill" /\ Len(filled) = header.services
  /\ Return("ok")
  /\ UNCHANGED <<header, raw, filled, heap, next, content, tmp, ptr, now,
                 before, calls, ub>>

\* Why the list cannot be printed: components beyond the end of the block
\* are read, or there is no slot left for the NULL that ends a loop.
Unprintable ==
  IF \E i \in 1 .. Len(filled) :
       filled[i].at + ServiceSize + filled[i].comps > content.size
  THEN "bounds"
  ELSE IF \/ Len(filled) > MaxServices
          \/ \E i \in 1 .. Len(filled) : filled[i].comps > MaxComponents
  THEN "overrun"
  ELSE "none"

\* What dabon-cli does with a list: it prints it, frees it and ends.
Release ==
  /\ pc = "idle" /\ ret = "ok"
  /\ IF Unprintable # "none"
     THEN Undefined(Unprintable) /\ UNCHANGED heap
     ELSE IF raw \in heap \union {0}
     THEN pc' = "released" /\ heap' = heap \ {raw} /\ UNCHANGED ub
     ELSE Undefined("double free") /\ UNCHANGED heap
  /\ UNCHANGED <<header, raw, filled, next, content, tmp, ptr, ret, now,
                 before, calls>>

CallStep ==
  \/ FreeOld \/ Exchange \/ AllocTmp \/ ReadList \/ CopyList
  \/ Fill \/ Filled

Next == Call \/ CallStep \/ Release

Spec == Init /\ [][Next]_vars /\ WF_vars(CallStep)

-----------------------------------------------------------------------------
TypeOK ==
  /\ pc \in {"idle", "free", "exchange", "malloc", "read", "copy", "fill",
             "released", "undefined"}
  /\ header \in [size : Nat, services : 0 .. ByteMax]
  /\ filled \in Seq([at : Nat, comps : 0 .. NumCompMax])
  /\ Len(filled) <= MaxServices + 1
  /\ heap \subseteq 1 .. next - 1 /\ raw \in 0 .. next - 1
  /\ tmp \in heap \union {0} /\ ptr \in Nat /\ next \in Nat
  /\ content \in Lists \union Garbage
  /\ ret \in {"none", "ok", "error"}
  /\ now \union before \subseteq {"error", "oom", "unread"}
  /\ calls \in 0 .. MaxCalls
  /\ ub \in {"none", "double free", "null", "freed", "bounds", "overread",
             "overrun"}

\* A call that returns 0 and met no fault leaves pointers that tell the
\* services and components of the list apart: each is where the ones before
\* it end, all are inside the block, and the block is allocated.
PointersIntoList ==
  pc = "idle" /\ ret = "ok" /\ now = {} =>
    /\ raw \in heap
    /\ Len(filled) = Len(content.counts)
    /\ \A i \in 1 .. Len(filled) :
         /\ filled[i].at = SizeUpto(content.counts, i - 1)
         /\ filled[i].comps = content.counts[i]
    /\ SizeUpto(content.counts, Len(filled)) <= content.size

\* No pointer is left that points into a block that was given back, also
\* when a call fails half way: the pointers are cleared before the block is
\* freed.
NoStalePointer ==
  pc \in {"free", "exchange", "malloc", "read", "copy", "idle"}
    /\ filled # <<>> => raw \in heap

\* No block is lost on any path: between two calls the structure is the only
\* owner of memory, and after the free of the caller nothing is left.
NoLeak ==
  /\ pc = "idle" => heap \subseteq {raw}
  /\ pc = "released" => heap = {}

\* A heap error is the consequence of one of three things nobody looks at: a
\* failed malloc, a failed read, or a call before this one that failed after
\* it had freed the list.  A single call on a zeroed structure, as dabon-cli
\* makes it, can only meet the first two.  Two errors need no such cause,
\* because nobody compares what the tuner says with the room there is: a
\* list that does not fit into tmp_buffer, and one of so many services that
\* service_list has no slot for one of them or for the NULL behind the last.
\* With fewer services neither array is ever left, whatever is in a buffer
\* that was not read to.
ErrorsAreCaused ==
  /\ ub \in {"null", "freed"} => "oom" \in now
  /\ ub = "bounds" => now \intersect {"oom", "unread"} # {}
  /\ ub = "overread" => header.size > BufferSize
  /\ ub = "overrun" => header.services > MaxServices
  /\ ub = "double free" => before # {} \/ "oom" \in now
  /\ ub = "double free" => calls > 1

-----------------------------------------------------------------------------
(* What every step preserves, and the five invariants follow from.         *)

InCall == {"free", "exchange", "malloc", "read", "copy"}

\* Who owns the heap at each statement.
HeapOwned ==
  /\ pc \in {"idle", "free", "fill"} => heap \subseteq {raw}
  /\ pc \in {"exchange", "malloc", "released"} => heap = {}
  /\ pc \in {"read", "copy"} => heap = {tmp}
  /\ tmp # 0 => pc \in {"read", "copy"}

\* What raw_service_list points to, if not to NULL or to an allocated block.
RawExplained ==
  /\ pc = "idle" => raw \in heap \union {0} \/ now # {}
  /\ pc = "idle" /\ ret = "ok" => raw \in heap \/ "oom" \in now
  /\ pc = "free" => raw \in heap \union {0} \/ before # {}
  /\ pc = "fill" => raw \in heap \/ "oom" \in now
  /\ calls = 0 => pc = "idle" /\ raw = 0 /\ ret = "none"
  /\ calls = 1 /\ pc \in InCall => raw = 0
  /\ calls = 1 /\ pc \in {"idle", "fill"} => raw \in heap \union {0}

\* The pointers found so far are those of the list, if that is what is in
\* the block.
Intact == content = Listing(content.counts)

Pointers ==
  /\ Len(filled) <= Len(content.counts)
  /\ \A i \in 1 .. Len(filled) :
       /\ filled[i].at = SizeUpto(content.counts, i - 1)
       /\ filled[i].comps = content.counts[i]

Progress ==
  /\ header = [size |-> content.size, services |-> Len(content.counts)]
  /\ pc \in InCall => filled = <<>>
  /\ pc \in {"fill", "idle"} /\ filled # <<>> => raw \in heap
  /\ pc \in {"fill", "idle"} => Len(filled) <= header.services
  /\ pc = "copy" => Intact \/ "unread" \in now
  /\ pc = "fill" =>
       \/ now \intersect {"oom", "unread"} # {}
       \/ Intact /\ Pointers /\ ptr = SizeUpto(content.counts, Len(filled))
  /\ pc = "idle" /\ ret = "ok" =>
       \/ now \intersect {"oom", "unread"} # {}
       \/ Intact /\ Pointers /\ Len(filled) = Len(content.counts)
  /\ ub # "none" => pc = "undefined"

\* The inductive invariant: with the steps of Next it needs no other fact.
IInv ==
  TypeOK /\ HeapOwned /\ RawExplained /\ Progress /\ ErrorsAreCaused

-----------------------------------------------------------------------------
\* "clear all data from the input structure": a structure that comes back
\* from a call, in whatever way the call ended, has no pointer to memory
\* that was given back.
StructureIsCleared == pc = "idle" => raw \in heap \union {0}
=============================================================================
