------------------------- MODULE CryptoBridgeProofs -------------------------
(***************************************************************************)
(* Proofs about CryptoBridge, for any number of wrappers, blocks and       *)
(* handles, any growth of the memory and any number of reserved slots.     *)
(*                                                                         *)
(* The argument: the free slots of the slab form one list (Linked), which  *)
(* addHeapObject takes the first slot off and dropObject puts a slot back  *)
(* on (AddLinked, DropLinked); every other slot beyond the constants is    *)
(* held by wasm, or was when a trap ended its call (SlabInv).  The stack   *)
(* pointer is short of the frames of the call under way and of those that  *)
(* Rust lost (ShapeOK).  A block in use belongs to a wrapper, is an        *)
(* argument of the call under way or its result, or was abandoned          *)
(* (BlockInv).                                                             *)
(***************************************************************************)
EXTENDS CryptoBridge, FiniteSetTheorems, TLAPS

-----------------------------------------------------------------------------
(***************************************************************************)
(* The inductive invariants.                                               *)
(***************************************************************************)

Slots == [kind : {"free", "constant", "value", "error"}, next : Nat]

FreeSlots(h) == {i \in DOMAIN h : h[i].kind = "free"}
Nexts(h) == {h[i].next : i \in FreeSlots(h)}

\* The free slots of slab h, with n for heap_next, form one list.
Linked(h, n) ==
  /\ h \in Seq(Slots) /\ n \in Nat
  /\ Nexts(h) \cup {n} = FreeSlots(h) \cup {Len(h) + 1}
  /\ n \notin Nexts(h)
  /\ \A i, j \in FreeSlots(h) : h[i].next = h[j].next => i = j
  /\ Reserved <= Len(h)
  /\ \A i \in 1..Reserved : h[i].kind = "constant"

\* Wasm holds what is in use, but for what was leaked, and holds something only
\* during a call.
SlabInv ==
  /\ Linked(heap, heapNext)
  /\ held \subseteq DOMAIN heap \ FreeSlots(heap)
  /\ leaked \subseteq DOMAIN heap \ FreeSlots(heap)
  /\ held \cap leaked = {} /\ \A i \in leaked : i > Reserved
  /\ held # {} => call.pc \in {"wasm", "error"}
  /\ call.pc = "error" => held = {call.out} /\ call.out > Reserved /\ heap[call.out].kind = "error"
  /\ \A i \in DOMAIN heap : i > Reserved => i \in FreeSlots(heap) \cup held \cup leaked

Contents == {"free", "arg", "result", "object"}

\* The frames of a call that is at pc: that of JavaScript, and that of Rust.
Frames(pc, fn) ==
  (IF pc # "idle" /\ TakesFrame(fn) THEN 1 ELSE 0) + (IF pc = "wasm" THEN 1 ELSE 0)

\* Types, as far as they matter.
ShapeOK ==
  /\ call = [pc |-> call.pc, fn |-> call.fn, self |-> call.self, ptrs |-> call.ptrs,
             out |-> call.out, value |-> call.value]
  /\ call.pc \in {"idle", "args", "wasm", "back", "error", "finally"}
  /\ call.fn \in Exports
  /\ call.ptrs \in Seq(Blocks)
  /\ call.value \in {"none", "result", "error", "exception"}
  /\ block \in [Blocks -> Contents]
  /\ wrappers \subseteq Objects
  /\ ptr \in [Objects -> Blocks \cup {0}]
  /\ registered \in [Objects -> Blocks \cup {0}]
  /\ call.self \in Blocks \cup {0}
  /\ lost \in Nat
  /\ stack = lost + Frames(call.pc, call.fn)

\* The blocks of the wrappers, and those of the call under way.
Owned == {ptr[o] : o \in Objects} \ {0}

Results == {"bytes", "string", "object"}

InCall ==
  CASE call.pc \in {"args", "wasm"} -> ToSet(call.ptrs)
    [] call.pc = "back" /\ call.fn.ret \in Results -> {call.out}
    [] call.pc = "finally" /\ call.fn.ret = "string" -> {call.out} \ {0}
    [] OTHER -> {}

\* A wrapper has a live struct to itself, and its finalizer will free that one.
OwnerInv ==
  \A o \in Objects :
    /\ registered[o] = ptr[o]
    /\ ptr[o] # 0 => block[ptr[o]] = "object" /\ o \in wrappers
    /\ \A p \in Objects \ {o} : ptr[o] # 0 => ptr[p] # ptr[o]

\* The blocks passed hold the arguments.
PassedInv ==
  call.pc \in {"args", "wasm"} =>
    call.out = 0 /\ \A b \in ToSet(call.ptrs) : block[b] = "arg"

\* What came back is in a block that no wrapper has.
ResultInv ==
  /\ call.pc = "back" =>
       /\ call.fn.ret \in {"bytes", "string"} => call.out \in Blocks /\ block[call.out] = "result"
       /\ call.fn.ret = "object" =>
            /\ call.out \in Blocks /\ block[call.out] = "object"
            /\ \A o \in Objects : ptr[o] # call.out
  /\ call.pc = "error" => call.fn.ret # "string"
  /\ call.pc = "finally" /\ call.fn.ret = "string" =>
       call.out = 0 \/ (call.out \in Blocks /\ block[call.out] = "result")

\* What was abandoned was an argument, of no call any more, or the struct of a method.
AbandonedInv ==
  /\ abandoned \subseteq Blocks
  /\ \A b \in abandoned : block[b] \in {"arg", "object"}
  /\ call.pc \in {"args", "wasm"} => abandoned \cap ToSet(call.ptrs) = {}

\* The struct of a method lives while the method runs.
SelfInv ==
  call.pc \in {"args", "wasm"} /\ call.self # 0 => block[call.self] = "object"

\* Every block in use has an owner, or was abandoned.
UsedInv == Used = Owned \cup InCall \cup abandoned

BlockInv == OwnerInv /\ PassedInv /\ ResultInv /\ AbandonedInv /\ SelfInv /\ UsedInv

BridgeInv == SlabInv /\ ShapeOK /\ BlockInv

-----------------------------------------------------------------------------
(***************************************************************************)
(* Lemmas about the slab.                                                  *)
(***************************************************************************)

\* addHeapObject takes a slot that was free, or a new one, and no other.
LEMMA AddLinked ==
  ASSUME NEW h, NEW n, Linked(h, n), NEW kind \in {"value", "error"}
  PROVE  LET t == AddHeapObject([heap |-> h, next |-> n], kind) IN
         /\ Linked(t.heap, t.next)
         /\ DOMAIN t.heap = DOMAIN h \cup {n}
         /\ FreeSlots(t.heap) = FreeSlots(h) \ {n}
         /\ n > Reserved /\ n \notin DOMAIN h \ FreeSlots(h)
         /\ t.heap[n].kind = kind
         /\ \A i \in DOMAIN h : i # n => t.heap[i] = h[i]
<1> DEFINE t == AddHeapObject([heap |-> h, next |-> n], kind)
<1>1. /\ h \in Seq(Slots) /\ n \in Nat /\ Len(h) \in Nat
      /\ Nexts(h) \cup {n} = FreeSlots(h) \cup {Len(h) + 1}
      /\ n \notin Nexts(h)
      /\ \A i, j \in FreeSlots(h) : h[i].next = h[j].next => i = j
      /\ Reserved <= Len(h) /\ Reserved \in Nat
      /\ \A i \in 1..Reserved : h[i].kind = "constant"
      /\ DOMAIN h = 1..Len(h) /\ FreeSlots(h) \subseteq 1..Len(h)
  BY BridgeAssumption DEF Linked, FreeSlots
<1>2. n \in FreeSlots(h) \/ n = Len(h) + 1
  BY <1>1
<1>3. n > Reserved
  BY <1>1, <1>2 DEF FreeSlots
<1>4. Slot(kind, 0) \in Slots /\ Slot(kind, 0).kind = kind /\ kind # "free"
  BY DEF Slot, Slots
<1>5. CASE n = Len(h) + 1
  <2> DEFINE g == Append(h, Slot("free", Len(h) + 2))
  <2>1. Slot("free", Len(h) + 2) \in Slots /\ Slot("free", Len(h) + 2).next = Len(h) + 2
    BY <1>1 DEF Slot, Slots
  <2>2. g \in Seq(Slots) /\ Len(g) = Len(h) + 1 /\ g[n] = Slot("free", Len(h) + 2)
        /\ \A i \in 1..Len(h) : g[i] = h[i]
    BY <1>1, <1>5, <2>1
  <2>3. t = [heap |-> [g EXCEPT ![n] = Slot(kind, 0)], next |-> Len(h) + 2]
    BY <1>5, <2>1, <2>2 DEF AddHeapObject
  <2> HIDE DEF t, g
  <2>4. /\ t.heap \in Seq(Slots) /\ Len(t.heap) = Len(h) + 1 /\ t.heap[n] = Slot(kind, 0)
        /\ \A i \in 1..Len(h) : t.heap[i] = h[i]
        /\ t.next = Len(h) + 2
    <3>1. n \in 1..Len(g)
      BY <1>1, <1>5, <2>2
    <3>2. t.heap = [g EXCEPT ![n] = Slot(kind, 0)] /\ t.next = Len(h) + 2
      BY <2>3
    <3>3. t.heap \in Seq(Slots) /\ Len(t.heap) = Len(g) /\ t.heap[n] = Slot(kind, 0)
          /\ \A i \in 1..Len(g) : i # n => t.heap[i] = g[i]
      BY <1>4, <2>2, <3>1, <3>2
    <3>4. QED BY <1>1, <1>5, <2>2, <3>2, <3>3
  <2>5. DOMAIN t.heap = DOMAIN h \cup {n}
    BY <1>1, <1>5, <2>4
  <2>6. FreeSlots(t.heap) = FreeSlots(h)
    BY <1>1, <1>4, <1>5, <2>4, <2>5 DEF FreeSlots
  <2>7. Nexts(t.heap) = Nexts(h)
    BY <1>1, <2>4, <2>6 DEF Nexts
  <2>8. Nexts(h) = FreeSlots(h)
    <3>1. Len(h) + 1 \notin FreeSlots(h) /\ Len(h) + 1 \notin Nexts(h)
      BY <1>1, <1>5
    <3>2. Nexts(h) \cup {Len(h) + 1} = FreeSlots(h) \cup {Len(h) + 1}
      BY <1>1, <1>5
    <3>3. QED BY <3>1, <3>2
  <2>9. Linked(t.heap, t.next)
    <3>1. Nexts(t.heap) \cup {t.next} = FreeSlots(t.heap) \cup {Len(t.heap) + 1}
      BY <1>1, <2>4, <2>6, <2>7, <2>8
    <3>2. t.next \notin Nexts(t.heap)
      BY <1>1, <2>4, <2>7, <2>8
    <3>3. \A i, j \in FreeSlots(t.heap) : t.heap[i].next = t.heap[j].next => i = j
      BY <1>1, <2>4, <2>6
    <3>4. Reserved <= Len(t.heap) /\ \A i \in 1..Reserved : t.heap[i].kind = "constant"
      BY <1>1, <2>4
    <3>5. QED BY <1>1, <2>4, <3>1, <3>2, <3>3, <3>4 DEF Linked
  <2>10. QED BY <1>1, <1>3, <1>4, <1>5, <2>4, <2>5, <2>6, <2>9 DEF t
<1>6. CASE n # Len(h) + 1
  <2>1. n \in FreeSlots(h) /\ n \in 1..Len(h)
    BY <1>1, <1>2, <1>6
  <2>2. t = [heap |-> [h EXCEPT ![n] = Slot(kind, 0)], next |-> h[n].next]
    BY <1>6 DEF AddHeapObject
  <2>3. h[n].next \in Nat
    <3>1. h[n] \in Slots
      BY <1>1, <2>1
    <3>2. QED BY <3>1 DEF Slots
  <2>4. /\ t.heap \in Seq(Slots) /\ Len(t.heap) = Len(h) /\ t.heap[n] = Slot(kind, 0)
        /\ \A i \in 1..Len(h) : i # n => t.heap[i] = h[i]
        /\ t.next = h[n].next
    BY <1>1, <1>4, <2>1, <2>2
  <2> HIDE DEF t
  <2>5. DOMAIN t.heap = DOMAIN h \cup {n}
    BY <1>1, <2>1, <2>4
  <2>6. FreeSlots(t.heap) = FreeSlots(h) \ {n}
    BY <1>1, <1>4, <2>1, <2>4, <2>5 DEF FreeSlots
  <2>7. Nexts(t.heap) = Nexts(h) \ {h[n].next}
    BY <1>1, <2>1, <2>4, <2>6 DEF Nexts
  <2>8. h[n].next \in Nexts(h)
    BY <2>1 DEF Nexts
  <2>9. Linked(t.heap, t.next)
    <3>1. Nexts(t.heap) \cup {t.next} = FreeSlots(t.heap) \cup {Len(t.heap) + 1}
      BY <1>1, <1>6, <2>4, <2>6, <2>7, <2>8
    <3>2. t.next \notin Nexts(t.heap)
      BY <2>4, <2>7
    <3>3. \A i, j \in FreeSlots(t.heap) : t.heap[i].next = t.heap[j].next => i = j
      BY <1>1, <2>4, <2>6
    <3>4. Reserved <= Len(t.heap) /\ \A i \in 1..Reserved : t.heap[i].kind = "constant"
      BY <1>1, <1>3, <2>4
    <3>5. QED BY <2>3, <2>4, <3>1, <3>2, <3>3, <3>4 DEF Linked
  <2>10. QED BY <1>1, <1>3, <1>4, <2>1, <2>4, <2>5, <2>6, <2>9 DEF t
<1>7. QED BY <1>5, <1>6

\* dropObject puts a slot in use back on the list, unless it is a constant.
LEMMA DropLinked ==
  ASSUME NEW h, NEW n, Linked(h, n), NEW i \in DOMAIN h \ FreeSlots(h)
  PROVE  LET t == DropObject([heap |-> h, next |-> n], i) IN
         /\ Linked(t.heap, t.next)
         /\ DOMAIN t.heap = DOMAIN h
         /\ FreeSlots(t.heap) = FreeSlots(h) \cup (IF i > Reserved THEN {i} ELSE {})
         /\ \A j \in DOMAIN h : j # i => t.heap[j] = h[j]
<1> DEFINE t == DropObject([heap |-> h, next |-> n], i)
<1>1. /\ h \in Seq(Slots) /\ n \in Nat /\ Len(h) \in Nat
      /\ Nexts(h) \cup {n} = FreeSlots(h) \cup {Len(h) + 1}
      /\ n \notin Nexts(h)
      /\ \A j, k \in FreeSlots(h) : h[j].next = h[k].next => j = k
      /\ Reserved <= Len(h) /\ Reserved \in Nat
      /\ \A j \in 1..Reserved : h[j].kind = "constant"
      /\ DOMAIN h = 1..Len(h) /\ FreeSlots(h) \subseteq 1..Len(h)
  BY BridgeAssumption DEF Linked, FreeSlots
<1>2. CASE ~(i > Reserved)
  <2>1. t = [heap |-> h, next |-> n]
    BY <1>2 DEF DropObject, Droppable
  <2>2. QED BY <1>2, <2>1
<1>3. CASE i > Reserved
  <2>1. i \in 1..Len(h) /\ i \notin FreeSlots(h)
    BY <1>1
  <2>2. Slot("free", n) \in Slots /\ Slot("free", n).kind = "free" /\ Slot("free", n).next = n
    BY <1>1 DEF Slot, Slots
  <2>3. t = [heap |-> [h EXCEPT ![i] = Slot("free", n)], next |-> i]
    BY <1>3 DEF DropObject, Droppable
  <2>4. /\ t.heap \in Seq(Slots) /\ Len(t.heap) = Len(h) /\ t.heap[i] = Slot("free", n)
        /\ \A j \in 1..Len(h) : j # i => t.heap[j] = h[j]
        /\ t.next = i
    BY <1>1, <2>1, <2>2, <2>3
  <2> HIDE DEF t
  <2>5. DOMAIN t.heap = DOMAIN h
    BY <1>1, <2>4
  <2>6. FreeSlots(t.heap) = FreeSlots(h) \cup {i}
    BY <1>1, <2>1, <2>2, <2>4, <2>5 DEF FreeSlots
  <2>7. Nexts(t.heap) = Nexts(h) \cup {n}
    <3>1. \A j \in FreeSlots(h) : t.heap[j].next = h[j].next
      BY <1>1, <2>1, <2>4
    <3>2. t.heap[i].next = n
      BY <2>2, <2>4
    <3>3. QED BY <2>6, <3>1, <3>2 DEF Nexts
  <2>8. Linked(t.heap, t.next)
    <3>1. Nexts(t.heap) \cup {t.next} = FreeSlots(t.heap) \cup {Len(t.heap) + 1}
      BY <1>1, <2>4, <2>6, <2>7
    <3>2. t.next \notin Nexts(t.heap)
      BY <1>1, <2>1, <2>4, <2>7
    <3>3. \A j, k \in FreeSlots(t.heap) : t.heap[j].next = t.heap[k].next => j = k
      <4>1. \A j \in FreeSlots(h) : t.heap[j].next = h[j].next /\ h[j].next \in Nexts(h)
        BY <1>1, <2>1, <2>4 DEF Nexts
      <4>2. t.heap[i].next = n
        BY <2>2, <2>4
      <4>3. QED BY <1>1, <2>6, <4>1, <4>2
    <3>4. Reserved <= Len(t.heap) /\ \A j \in 1..Reserved : t.heap[j].kind = "constant"
      BY <1>1, <1>3, <2>4
    <3>5. QED BY <1>1, <2>1, <2>4, <3>1, <3>2, <3>3, <3>4 DEF Linked
  <2>9. QED BY <1>1, <1>3, <2>4, <2>5, <2>6, <2>8 DEF t
<1>4. QED BY <1>2, <1>3

\* A list visits every free slot once.
LEMMA LinkedCounts ==
  ASSUME NEW h, NEW n, Linked(h, n)
  PROVE  Cardinality(Nexts(h)) = Cardinality(FreeSlots(h))
<1> DEFINE f == [i \in FreeSlots(h) |-> h[i].next]
<1>1. IsFiniteSet(FreeSlots(h))
  <2>1. Len(h) \in Nat /\ FreeSlots(h) \subseteq 1..Len(h)
    BY DEF Linked, FreeSlots
  <2>2. 1 \in Int /\ Len(h) \in Int
    BY <2>1
  <2>3. IsFiniteSet(1..Len(h))
    BY <2>2, FS_Interval
  <2>4. QED BY <2>1, <2>3, FS_Subset
<1>2. f \in [FreeSlots(h) -> Nexts(h)]
  BY DEF Nexts
<1>3. \A a, b \in FreeSlots(h) : f[a] = f[b] => a = b
  BY DEF Linked
<1>4. \A t \in Nexts(h) : \E a \in FreeSlots(h) : f[a] = t
  BY DEF Nexts
<1> HIDE DEF f
<1>5. f \in Bijection(FreeSlots(h), Nexts(h))
  BY <1>2, <1>3, <1>4 DEF Bijection, Injection, Surjection, IsInjective
<1>6. ExistsBijection(FreeSlots(h), Nexts(h))
  BY <1>5 DEF ExistsBijection
<1>7. QED BY <1>1, <1>6, FS_Bijection

-----------------------------------------------------------------------------
(***************************************************************************)
(* Lemmas about the exported functions, the memory and the call.           *)
(***************************************************************************)

\* No function that returns a string returns an error.
LEMMA ExportsOK ==
  \A f \in Exports : /\ f.ret \in {"bytes", "string", "object", "bool", "none"}
                     /\ f.ret = "string" => ~f.fails
BY DEF Exports, Fn, Method, Getter, Setter, NenEncapsulation, NenKeypair,
       NenSigningKeypair, NenX25519Keypair, nen_decapsulate, nen_decrypt,
       nen_derive_enc_key, nen_derive_mac_key, nen_encapsulate, nen_encrypt,
       nen_from_base64, nen_generate_keypair, nen_generate_nonce,
       nen_generate_signing_keypair, nen_hkdf, nen_hmac_sign, nen_hmac_verify,
       nen_hybrid_combine, nen_ratchet_key, nen_sign, nen_to_base64,
       nen_transcript_hash, nen_verify_signature, nen_x25519_dh, nen_x25519_keypair

\* What an import gives back goes to the slab or is a number.
LEMMA ImportsOK == \A f \in Imports : f.gives \subseteq {"value", "number"}
<1>1. \A f \in {Test, Property, Made, Global, Require, Call} \cup GetRandomValues :
        f.gives \subseteq {"value", "number"}
  BY DEF Import, Test, Property, Made, Global, Require, Call, GetRandomValues
<1>2. RandomFillSync.gives \subseteq {"value", "number"} /\ DropRef.gives \subseteq {"value", "number"}
  BY DEF Import, RandomFillSync, DropRef
<1>3. QED BY <1>1, <1>2 DEF Imports

\* The allocator hands out a free block.
LEMMA FreeBlockFree == HasRoom => FreeBlock \in Blocks /\ block[FreeBlock] = "free"
BY DEF HasRoom, FreeBlock

\* A view that was fetched is never of an old buffer.
LEMMA ViewsCurrent ==
  \A view, g, x : Current(view, g) = g /\ Through(Current(view, g), g, x) = x
BY DEF Current, Through

\* An argument is passed in a block of its own.
LEMMA AppendSet ==
  ASSUME NEW s \in Seq(Blocks), NEW b \in Blocks
  PROVE  Append(s, b) \in Seq(Blocks) /\ ToSet(Append(s, b)) = ToSet(s) \cup {b}
<1>1. Append(s, b) \in Seq(Blocks)
  OBVIOUS
<1>2. /\ DOMAIN Append(s, b) = DOMAIN s \cup {Len(s) + 1}
      /\ \A i \in DOMAIN s : Append(s, b)[i] = s[i]
      /\ Append(s, b)[Len(s) + 1] = b
  OBVIOUS
<1>3. QED BY <1>1, <1>2 DEF ToSet

\* The blocks of the arguments are blocks; no argument, no block.
LEMMA SetOfPtrs ==
  /\ <<>> \in Seq(Blocks) /\ ToSet(<<>>) = {}
  /\ \A s \in Seq(Blocks) : ToSet(s) \subseteq Blocks
BY DEF ToSet

\* The call record c is that of the call under way, but for what is given.
Whole(c) == c = [pc |-> c.pc, fn |-> c.fn, self |-> c.self, ptrs |-> c.ptrs,
                 out |-> c.out, value |-> c.value]

Becomes(c, pc, ptrs, out, value) ==
  /\ Whole(c)
  /\ c.pc = pc /\ c.fn = call.fn /\ c.self = call.self
  /\ c.ptrs = ptrs /\ c.out = out /\ c.value = value

LEMMA CallNow == ShapeOK => Becomes(call, call.pc, call.ptrs, call.out, call.value)
BY DEF ShapeOK, Becomes, Whole

LEMMA CallUpdate ==
  ASSUME NEW c, NEW pc, NEW ptrs, NEW out, NEW value, Becomes(c, pc, ptrs, out, value), NEW x
  PROVE  /\ Becomes([c EXCEPT !.pc = x], x, ptrs, out, value)
         /\ Becomes([c EXCEPT !.ptrs = x], pc, x, out, value)
         /\ Becomes([c EXCEPT !.out = x], pc, ptrs, x, value)
         /\ Becomes([c EXCEPT !.value = x], pc, ptrs, out, x)
<1>1. Becomes([c EXCEPT !.pc = x], x, ptrs, out, value)
  BY DEF Becomes, Whole
<1>2. Becomes([c EXCEPT !.ptrs = x], pc, x, out, value)
  BY DEF Becomes, Whole
<1>3. Becomes([c EXCEPT !.out = x], pc, ptrs, x, value)
  BY DEF Becomes, Whole
<1>4. Becomes([c EXCEPT !.value = x], pc, ptrs, out, x)
  BY DEF Becomes, Whole
<1>5. QED BY <1>1, <1>2, <1>3, <1>4

\* What each step leaves in the call record.
LEMMA CallSteps ==
  ASSUME ShapeOK
  PROVE  /\ \A g : PassBytes(g) =>
              Becomes(call', call.pc, Append(call.ptrs, FreeBlock), call.out, call.value)
         /\ \A g1, g2, g3 : PassString(g1, g2, g3) =>
              Becomes(call', call.pc, Append(call.ptrs, FreeBlock), call.out, call.value)
         /\ RefuseArg \/ EnterNull \/ Trap =>
              Becomes(call', "finally", call.ptrs, call.out, "exception")
         /\ Enter =>
              Becomes(call', "wasm", call.ptrs, call.out, call.value)
         /\ \A g : Return(g) /\ call.fn.ret \in {"bool", "none"} =>
              Becomes(call', "back", <<>>, call.out, call.value)
         /\ \A g : Return(g) /\ call.fn.ret \notin {"bool", "none"} =>
              Becomes(call', "back", <<>>, FreeBlock, call.value)
         /\ ReturnErr =>
              Becomes(call', "error", <<>>, heapNext, call.value)
         /\ TakeBytes \/ TakeString =>
              Becomes(call', "finally", call.ptrs, call.out, Read)
         /\ TakeNumber \/ (\E o \in Objects : Wrap(o)) =>
              Becomes(call', "finally", call.ptrs, call.out, "result")
         /\ Throw =>
              Becomes(call', "finally", call.ptrs, call.out, heap[call.out].kind)
<1>1. Becomes(call, call.pc, call.ptrs, call.out, call.value)
  BY CallNow
<1>2. \A g : PassBytes(g) =>
        Becomes(call', call.pc, Append(call.ptrs, FreeBlock), call.out, call.value)
  <2>1. \A g : PassBytes(g) => call' = [call EXCEPT !.ptrs = Append(call.ptrs, FreeBlock)]
    BY DEF PassBytes
  <2>2. Becomes([call EXCEPT !.ptrs = Append(call.ptrs, FreeBlock)], call.pc, Append(call.ptrs, FreeBlock), call.out, call.value)
    BY <1>1, CallUpdate
  <2>3. QED BY <2>1, <2>2
<1>3. \A g1, g2, g3 : PassString(g1, g2, g3) =>
        Becomes(call', call.pc, Append(call.ptrs, FreeBlock), call.out, call.value)
  <2>1. \A g1, g2, g3 : PassString(g1, g2, g3) => call' = [call EXCEPT !.ptrs = Append(call.ptrs, FreeBlock)]
    BY DEF PassString
  <2>2. Becomes([call EXCEPT !.ptrs = Append(call.ptrs, FreeBlock)], call.pc, Append(call.ptrs, FreeBlock), call.out, call.value)
    BY <1>1, CallUpdate
  <2>3. QED BY <2>1, <2>2
<1>4. RefuseArg \/ EnterNull \/ Trap =>
        Becomes(call', "finally", call.ptrs, call.out, "exception")
  <2> DEFINE k == [call EXCEPT !.pc = "finally"]
  <2>1. RefuseArg \/ EnterNull \/ Trap => call' = [k EXCEPT !.value = "exception"]
    BY DEF RefuseArg, EnterNull, Trap, Abandon
  <2>2. Becomes(k, "finally", call.ptrs, call.out, call.value)
    BY <1>1, CallUpdate
  <2> HIDE DEF k
  <2>3. Becomes([k EXCEPT !.value = "exception"], "finally", call.ptrs, call.out, "exception")
    BY <2>2, CallUpdate
  <2>4. QED BY <2>1, <2>3
<1>5. Enter =>
        Becomes(call', "wasm", call.ptrs, call.out, call.value)
  <2>1. Enter => call' = [call EXCEPT !.pc = "wasm"]
    BY DEF Enter
  <2>2. Becomes([call EXCEPT !.pc = "wasm"], "wasm", call.ptrs, call.out, call.value)
    BY <1>1, CallUpdate
  <2>3. QED BY <2>1, <2>2
<1>6. \A g : Return(g) /\ call.fn.ret \in {"bool", "none"} =>
        Becomes(call', "back", <<>>, call.out, call.value)
  <2> DEFINE k == [call EXCEPT !.pc = "back"]
  <2>1. \A g : Return(g) /\ call.fn.ret \in {"bool", "none"} => call' = [k EXCEPT !.ptrs = <<>>]
    BY DEF Return
  <2>2. Becomes(k, "back", call.ptrs, call.out, call.value)
    BY <1>1, CallUpdate
  <2> HIDE DEF k
  <2>3. Becomes([k EXCEPT !.ptrs = <<>>], "back", <<>>, call.out, call.value)
    BY <2>2, CallUpdate
  <2>4. QED BY <2>1, <2>3
<1>7. \A g : Return(g) /\ call.fn.ret \notin {"bool", "none"} =>
        Becomes(call', "back", <<>>, FreeBlock, call.value)
  <2> DEFINE k == [call EXCEPT !.pc = "back"]
             j == [k EXCEPT !.ptrs = <<>>]
  <2>1. \A g : Return(g) /\ call.fn.ret \notin {"bool", "none"} => call' = [j EXCEPT !.out = FreeBlock]
    BY DEF Return
  <2>2. Becomes(k, "back", call.ptrs, call.out, call.value)
    BY <1>1, CallUpdate
  <2> HIDE DEF k
  <2>3. Becomes(j, "back", <<>>, call.out, call.value)
    BY <2>2, CallUpdate
  <2> HIDE DEF j
  <2>4. Becomes([j EXCEPT !.out = FreeBlock], "back", <<>>, FreeBlock, call.value)
    BY <2>3, CallUpdate
  <2>5. QED BY <2>1, <2>4
<1>8. ReturnErr =>
        Becomes(call', "error", <<>>, heapNext, call.value)
  <2> DEFINE k == [call EXCEPT !.pc = "error"]
             j == [k EXCEPT !.ptrs = <<>>]
  <2>1. ReturnErr => call' = [j EXCEPT !.out = heapNext]
    BY DEF ReturnErr
  <2>2. Becomes(k, "error", call.ptrs, call.out, call.value)
    BY <1>1, CallUpdate
  <2> HIDE DEF k
  <2>3. Becomes(j, "error", <<>>, call.out, call.value)
    BY <2>2, CallUpdate
  <2> HIDE DEF j
  <2>4. Becomes([j EXCEPT !.out = heapNext], "error", <<>>, heapNext, call.value)
    BY <2>3, CallUpdate
  <2>5. QED BY <2>1, <2>4
<1>9. TakeBytes \/ TakeString =>
        Becomes(call', "finally", call.ptrs, call.out, Read)
  <2> DEFINE k == [call EXCEPT !.pc = "finally"]
  <2>1. TakeBytes \/ TakeString => call' = [k EXCEPT !.value = Read]
    BY DEF TakeBytes, TakeString
  <2>2. Becomes(k, "finally", call.ptrs, call.out, call.value)
    BY <1>1, CallUpdate
  <2> HIDE DEF k
  <2>3. Becomes([k EXCEPT !.value = Read], "finally", call.ptrs, call.out, Read)
    BY <2>2, CallUpdate
  <2>4. QED BY <2>1, <2>3
<1>10. TakeNumber \/ (\E o \in Objects : Wrap(o)) =>
        Becomes(call', "finally", call.ptrs, call.out, "result")
  <2> DEFINE k == [call EXCEPT !.pc = "finally"]
  <2>1. TakeNumber \/ (\E o \in Objects : Wrap(o)) => call' = [k EXCEPT !.value = "result"]
    BY DEF TakeNumber, Wrap
  <2>2. Becomes(k, "finally", call.ptrs, call.out, call.value)
    BY <1>1, CallUpdate
  <2> HIDE DEF k
  <2>3. Becomes([k EXCEPT !.value = "result"], "finally", call.ptrs, call.out, "result")
    BY <2>2, CallUpdate
  <2>4. QED BY <2>1, <2>3
<1>11. Throw =>
        Becomes(call', "finally", call.ptrs, call.out, heap[call.out].kind)
  <2> DEFINE k == [call EXCEPT !.pc = "finally"]
  <2>1. Throw => call' = [k EXCEPT !.value = heap[call.out].kind]
    BY DEF Throw
  <2>2. Becomes(k, "finally", call.ptrs, call.out, call.value)
    BY <1>1, CallUpdate
  <2> HIDE DEF k
  <2>3. Becomes([k EXCEPT !.value = heap[call.out].kind], "finally", call.ptrs, call.out, heap[call.out].kind)
    BY <2>2, CallUpdate
  <2>4. QED BY <2>1, <2>3
<1>12. QED BY <1>2, <1>3, <1>4, <1>5, <1>6, <1>7, <1>8, <1>9, <1>10, <1>11

\* A call starts with no argument passed and no result.
LEMMA BeginCall ==
  ASSUME NEW f, NEW p
  PROVE  [NoCall EXCEPT !.pc = "args", !.fn = f, !.self = p] =
           [pc |-> "args", fn |-> f, self |-> p, ptrs |-> <<>>, out |-> 0, value |-> "none"]
<1> DEFINE j == [NoCall EXCEPT !.pc = "args"]
           k == [j EXCEPT !.fn = f]
<1>1. j = [pc |-> "args", fn |-> nen_generate_nonce, self |-> 0, ptrs |-> <<>>,
           out |-> 0, value |-> "none"]
  BY DEF NoCall
<1>2. [NoCall EXCEPT !.pc = "args", !.fn = f, !.self = p] = [k EXCEPT !.self = p]
  OBVIOUS
<1> HIDE DEF j
<1>3. k = [pc |-> "args", fn |-> f, self |-> 0, ptrs |-> <<>>, out |-> 0, value |-> "none"]
  BY <1>1
<1> HIDE DEF k
<1>4. [k EXCEPT !.self = p] =
        [pc |-> "args", fn |-> f, self |-> p, ptrs |-> <<>>, out |-> 0, value |-> "none"]
  BY <1>3
<1>5. QED BY <1>2, <1>4

\* The new slot of the slab is held by nobody.
LEMMA NextFree == SlabInv => heapNext \notin held /\ heapNext > Reserved
<1> SUFFICES ASSUME SlabInv PROVE heapNext \notin held /\ heapNext > Reserved
  OBVIOUS
<1>1. Linked(heap, heapNext) /\ held \subseteq DOMAIN heap \ FreeSlots(heap)
  BY DEF SlabInv
<1>2. "value" \in {"value", "error"}
  OBVIOUS
<1>3. heapNext > Reserved /\ heapNext \notin DOMAIN heap \ FreeSlots(heap)
  BY <1>1, <1>2, AddLinked
<1>4. QED BY <1>1, <1>3

-----------------------------------------------------------------------------
(***************************************************************************)
(* The slab.                                                               *)
(***************************************************************************)

\* A step that leaves the slab alone and throws nothing keeps its invariant.
LEMMA SlabKept ==
  ASSUME SlabInv, UNCHANGED slab, leaked' = leaked,
         call'.pc # "error", held = {} \/ call'.pc = "wasm"
  PROVE  SlabInv'
<1>1. heap' = heap /\ heapNext' = heapNext /\ held' = held
  BY DEF slab
<1>2. Linked(heap, heapNext)' /\ FreeSlots(heap)' = FreeSlots(heap)
  BY <1>1 DEF SlabInv
<1>3. QED BY <1>1, <1>2 DEF SlabInv

LEMMA SlabImport ==
  ASSUME SlabInv, ShapeOK, NEW f \in Imports, CallImport(f)
  PROVE  SlabInv'
<1>1. PICK d \in IF f.takes THEN held ELSE {0},
           kind \in f.gives \cup (IF f.throws THEN {"error"} ELSE {}) :
        LET left == IF f.takes THEN DropObject(Slab, d) ELSE Slab IN
        /\ call.pc = "wasm"
        /\ IF kind = "number"
           THEN SlabBecomes(left) /\ held' = held \ {d}
           ELSE SlabBecomes(AddHeapObject(left, kind)) /\ held' = (held \ {d}) \cup {left.next}
        /\ call' = call /\ leaked' = leaked
  BY DEF CallImport, strays
<1> DEFINE left == IF f.takes THEN DropObject(Slab, d) ELSE Slab
           h == left.heap
           n == left.next
<1>2. kind = "number" \/ kind \in {"value", "error"}
  BY <1>1, ImportsOK
<1>3. /\ Linked(heap, heapNext) /\ held \subseteq DOMAIN heap \ FreeSlots(heap)
      /\ DOMAIN heap = 1..Len(heap) /\ Len(heap) \in Nat
      /\ leaked \subseteq DOMAIN heap \ FreeSlots(heap)
      /\ held \cap leaked = {} /\ \A i \in leaked : i > Reserved
      /\ \A i \in DOMAIN heap : i > Reserved => i \in FreeSlots(heap) \cup held \cup leaked
      /\ Reserved \in Nat
  BY BridgeAssumption DEF SlabInv, Linked
<1>4. /\ left = [heap |-> h, next |-> n]
      /\ Linked(h, n)
      /\ DOMAIN h = DOMAIN heap
      /\ held \ {d} \subseteq DOMAIN h \ FreeSlots(h)
      /\ leaked \subseteq DOMAIN h \ FreeSlots(h)
      /\ \A i \in DOMAIN h : i > Reserved => i \in FreeSlots(h) \cup (held \ {d}) \cup leaked
  <2>1. CASE f.takes
    <3>1. d \in DOMAIN heap \ FreeSlots(heap) /\ d \in held
      BY <1>1, <1>3, <2>1
    <3>2. left = DropObject([heap |-> heap, next |-> heapNext], d)
      BY <2>1 DEF Slab
    <3>3. /\ Linked(h, n) /\ DOMAIN h = DOMAIN heap
          /\ FreeSlots(h) = FreeSlots(heap) \cup (IF d > Reserved THEN {d} ELSE {})
      BY <1>3, <3>1, <3>2, DropLinked
    <3>4. left = [heap |-> h, next |-> n]
      BY <3>2 DEF DropObject
    <3> HIDE DEF left, h, n
    <3>5. QED BY <1>3, <3>1, <3>3, <3>4
  <2>2. CASE ~f.takes
    <3>1. d = 0 /\ left = [heap |-> heap, next |-> heapNext]
      BY <1>1, <2>2 DEF Slab
    <3>2. h = heap /\ n = heapNext
      BY <3>1
    <3>3. held \ {d} = held
      BY <1>3, <3>1
    <3> HIDE DEF left, h, n
    <3>4. QED BY <1>3, <3>1, <3>2, <3>3
  <2>3. QED BY <2>1, <2>2
<1>5. CASE kind = "number"
  <2>1. heap' = h /\ heapNext' = n /\ held' = held \ {d} /\ call' = call /\ leaked' = leaked
    BY <1>1, <1>5 DEF SlabBecomes
  <2> HIDE DEF left, h, n
  <2>2. QED BY <1>1, <1>3, <1>4, <2>1 DEF SlabInv
<1>6. CASE kind \in {"value", "error"}
  <2> DEFINE t == AddHeapObject([heap |-> h, next |-> n], kind)
  <2>1. /\ heap' = t.heap /\ heapNext' = t.next /\ held' = (held \ {d}) \cup {n}
        /\ call' = call /\ leaked' = leaked
    BY <1>1, <1>4, <1>6 DEF SlabBecomes
  <2> HIDE DEF left, h, n
  <2>2. /\ Linked(t.heap, t.next)
        /\ DOMAIN t.heap = DOMAIN h \cup {n}
        /\ FreeSlots(t.heap) = FreeSlots(h) \ {n}
        /\ n > Reserved /\ n \notin DOMAIN h \ FreeSlots(h)
    BY <1>4, <1>6, AddLinked
  <2> HIDE DEF t
  <2>3. /\ (held \ {d}) \cup {n} \subseteq DOMAIN t.heap \ FreeSlots(t.heap)
        /\ leaked \subseteq DOMAIN t.heap \ FreeSlots(t.heap)
        /\ ((held \ {d}) \cup {n}) \cap leaked = {}
    BY <1>3, <1>4, <2>2
  <2>4. \A i \in DOMAIN t.heap :
          i > Reserved => i \in FreeSlots(t.heap) \cup ((held \ {d}) \cup {n}) \cup leaked
    BY <1>4, <2>2
  <2>5. QED BY <1>1, <1>3, <2>1, <2>2, <2>3, <2>4 DEF SlabInv
<1>7. QED BY <1>2, <1>5, <1>6


LEMMA SlabReturnErr ==
  ASSUME SlabInv, ShapeOK, ReturnErr
  PROVE  SlabInv'
<1> DEFINE t == AddHeapObject([heap |-> heap, next |-> heapNext], "error")
<1>1. /\ heap' = t.heap /\ heapNext' = t.next /\ held' = {heapNext} /\ held = {}
      /\ call' = [call EXCEPT !.pc = "error", !.ptrs = <<>>, !.out = heapNext]
      /\ leaked' = leaked
  BY DEF ReturnErr, SlabBecomes, Slab, strays
<1>2. /\ Linked(heap, heapNext)
      /\ leaked \subseteq DOMAIN heap \ FreeSlots(heap) /\ \A i \in leaked : i > Reserved
      /\ \A i \in DOMAIN heap : i > Reserved => i \in FreeSlots(heap) \cup held \cup leaked
  BY DEF SlabInv
<1>3. "error" \in {"value", "error"}
  OBVIOUS
<1>4. /\ Linked(t.heap, t.next)
      /\ DOMAIN t.heap = DOMAIN heap \cup {heapNext}
      /\ FreeSlots(t.heap) = FreeSlots(heap) \ {heapNext}
      /\ heapNext > Reserved /\ heapNext \notin DOMAIN heap \ FreeSlots(heap)
      /\ t.heap[heapNext].kind = "error"
  BY <1>2, <1>3, AddLinked
<1>5. call'.pc = "error" /\ call'.out = heapNext
  BY <1>1, CallSteps DEF Becomes
<1> HIDE DEF t
<1>6. QED BY <1>1, <1>2, <1>4, <1>5 DEF SlabInv

LEMMA SlabThrow ==
  ASSUME SlabInv, ShapeOK, Throw
  PROVE  SlabInv'
<1> DEFINE t == DropObject([heap |-> heap, next |-> heapNext], call.out)
<1>1. /\ heap' = t.heap /\ heapNext' = t.next /\ held' = {}
      /\ call.pc = "error"
      /\ call' = [call EXCEPT !.pc = "finally", !.value = heap[call.out].kind]
      /\ leaked' = leaked
  BY DEF Throw, SlabBecomes, Slab, strays
<1>2. /\ Linked(heap, heapNext)
      /\ held = {call.out} /\ call.out > Reserved
      /\ call.out \in DOMAIN heap \ FreeSlots(heap)
      /\ leaked \subseteq DOMAIN heap \ FreeSlots(heap)
      /\ held \cap leaked = {} /\ \A i \in leaked : i > Reserved
      /\ \A i \in DOMAIN heap : i > Reserved => i \in FreeSlots(heap) \cup held \cup leaked
  BY <1>1 DEF SlabInv
<1>3. /\ Linked(t.heap, t.next)
      /\ DOMAIN t.heap = DOMAIN heap
      /\ FreeSlots(t.heap) = FreeSlots(heap) \cup {call.out}
  BY <1>2, DropLinked
<1>4. call'.pc = "finally"
  BY <1>1, CallSteps DEF Becomes
<1> HIDE DEF t
<1>5. QED BY <1>1, <1>2, <1>3, <1>4 DEF SlabInv

LEMMA SlabStep ==
  ASSUME SlabInv, ShapeOK, [Next]_vars
  PROVE  SlabInv'
<1>1. call.pc \in {"idle", "args", "wasm", "back", "error", "finally"}
  BY DEF ShapeOK
<1>2. held # {} => call.pc \in {"wasm", "error"}
  BY DEF SlabInv
<1>3. CASE UNCHANGED vars
  <2>1. /\ heap' = heap /\ heapNext' = heapNext /\ held' = held /\ leaked' = leaked
        /\ call' = call
    BY <1>3 DEF vars, slab, strays
  <2>2. Linked(heap, heapNext)' /\ FreeSlots(heap)' = FreeSlots(heap)
    BY <2>1 DEF SlabInv
  <2>3. QED BY <2>1, <2>2 DEF SlabInv
<1>4. ASSUME NEW f \in Exports, NEW p, Begin(f, p)
      PROVE  SlabInv'
  <2>1. call.pc = "idle" /\ UNCHANGED slab /\ leaked' = leaked
        /\ call' = [NoCall EXCEPT !.pc = "args", !.fn = f, !.self = p]
    BY <1>4 DEF Begin, strays
  <2>2. call'.pc = "args"
    BY <2>1, BeginCall
  <2>3. QED BY <1>1, <1>2, <2>1, <2>2, SlabKept
<1>5. ASSUME NEW g \in Grown, PassBytes(g)
      PROVE  SlabInv'
  <2>1. call.pc = "args" /\ UNCHANGED slab /\ leaked' = leaked /\ call'.pc = call.pc
    BY <1>5, CallSteps DEF Becomes, PassBytes, strays
  <2>2. QED BY <1>1, <1>2, <2>1, SlabKept
<1>6. ASSUME NEW g1 \in Grown, NEW g2 \in Grown, NEW g3 \in Grown, PassString(g1, g2, g3)
      PROVE  SlabInv'
  <2>1. call.pc = "args" /\ UNCHANGED slab /\ leaked' = leaked /\ call'.pc = call.pc
    BY <1>6, CallSteps DEF Becomes, PassString, strays
  <2>2. QED BY <1>1, <1>2, <2>1, SlabKept
<1>7. CASE RefuseArg \/ EnterNull
  <2>1. call.pc = "args" /\ UNCHANGED slab /\ leaked' = leaked /\ call'.pc = "finally"
    BY <1>7, CallSteps DEF Becomes, RefuseArg, EnterNull, strays
  <2>2. QED BY <1>1, <1>2, <2>1, SlabKept
<1>8. CASE Enter
  <2>1. call.pc = "args" /\ UNCHANGED slab /\ leaked' = leaked /\ call'.pc = "wasm"
    BY <1>8, CallSteps DEF Becomes, Enter, strays
  <2>2. QED BY <1>1, <1>2, <2>1, SlabKept
<1>9. ASSUME NEW f \in Imports, CallImport(f)
      PROVE  SlabInv'
  BY <1>9, SlabImport
<1>10. CASE TakeConstant
  <2>1. heap' = heap /\ heapNext' = heapNext /\ held' = held \cup {1} /\ call' = call
        /\ leaked' = leaked /\ call.pc = "wasm"
    BY <1>10 DEF TakeConstant, strays
  <2>2. 1 \in DOMAIN heap \ FreeSlots(heap) /\ 1 \notin leaked
    BY BridgeAssumption DEF SlabInv, Linked, FreeSlots
  <2>3. Linked(heap, heapNext)' /\ FreeSlots(heap)' = FreeSlots(heap)
    BY <2>1 DEF SlabInv
  <2>4. QED BY <2>1, <2>2, <2>3 DEF SlabInv
<1>11. ASSUME NEW g \in Grown, Return(g)
       PROVE  SlabInv'
  <2>1. call.pc = "wasm" /\ held = {} /\ UNCHANGED slab /\ leaked' = leaked /\ call'.pc = "back"
    <3>1. call.pc = "wasm" /\ held = {} /\ UNCHANGED slab /\ leaked' = leaked
      BY <1>11 DEF Return, strays
    <3>2. call'.pc = "back"
      BY <1>11, CallSteps DEF Becomes
    <3>3. QED BY <3>1, <3>2
  <2>2. QED BY <1>1, <2>1, SlabKept
<1>12. CASE ReturnErr
  BY <1>12, SlabReturnErr
<1>13. CASE Trap
  <2>1. /\ heap' = heap /\ heapNext' = heapNext /\ held' = {}
        /\ leaked' = leaked \cup {i \in held : i > Reserved}
        /\ call'.pc = "finally"
    BY <1>13, CallSteps DEF Becomes, Trap
  <2>2. Linked(heap, heapNext)' /\ FreeSlots(heap)' = FreeSlots(heap)
    BY <2>1 DEF SlabInv
  <2>3. QED BY <2>1, <2>2 DEF SlabInv
<1>14. CASE TakeBytes \/ TakeString \/ TakeNumber
  <2>1. call.pc = "back" /\ UNCHANGED slab /\ leaked' = leaked /\ call'.pc = "finally"
    BY <1>14, CallSteps DEF Becomes, TakeBytes, TakeString, TakeNumber, strays
  <2>2. QED BY <1>1, <1>2, <2>1, SlabKept
<1>15. CASE Throw
  BY <1>15, SlabThrow
<1>16. CASE Finally
  <2>1. call.pc = "finally" /\ UNCHANGED slab /\ leaked' = leaked
        /\ call' = [NoCall EXCEPT !.value = call.value]
    BY <1>16 DEF Finally, strays
  <2>2. call'.pc = "idle"
    BY <2>1 DEF NoCall
  <2>3. QED BY <1>1, <1>2, <2>1, <2>2, SlabKept
<1>17. ASSUME NEW o \in Objects, Wrap(o)
       PROVE  SlabInv'
  <2>1. call.pc = "back" /\ UNCHANGED slab /\ leaked' = leaked /\ call'.pc = "finally"
    BY <1>17, CallSteps DEF Becomes, Wrap, strays
  <2>2. QED BY <1>1, <1>2, <2>1, SlabKept
<1>18. ASSUME NEW o \in Objects, FreeWrapper(o) \/ FreeAgain(o) \/ Collect(o)
       PROVE  SlabInv'
  <2>1. call.pc = "idle" /\ UNCHANGED slab /\ leaked' = leaked /\ call' = call
    BY <1>18 DEF FreeWrapper, FreeAgain, Collect, strays
  <2>2. QED BY <1>1, <1>2, <2>1, SlabKept
<1>19. QED
  BY <1>3, <1>4, <1>5, <1>6, <1>7, <1>8, <1>9, <1>10, <1>11, <1>12, <1>13, <1>14, <1>15,
     <1>16, <1>17, <1>18 DEF Next, Function, MethodOf, Passing, InWasm, Taking


-----------------------------------------------------------------------------
(***************************************************************************)
(* The blocks.                                                             *)
(***************************************************************************)

\* A step within a call.
LEMMA ShapeKept ==
  ASSUME ShapeOK, call.pc # "idle", Whole(call'),
         call'.pc \in {"args", "wasm", "back", "error", "finally"}, call'.fn = call.fn,
         call'.ptrs \in Seq(Blocks),
         call'.value \in {"none", "result", "error", "exception"},
         block' \in [Blocks -> Contents], call'.self = call.self,
         lost' \in Nat, stack' = lost' + Frames(call'.pc, call'.fn),
         wrappers' \subseteq Objects, ptr' \in [Objects -> Blocks \cup {0}],
         registered' \in [Objects -> Blocks \cup {0}]
  PROVE  ShapeOK'
<1>1. call.fn \in Exports /\ call.self \in Blocks \cup {0}
  BY DEF ShapeOK
<1>2. QED BY <1>1 DEF ShapeOK, Whole

\* The frames of a call are those of JavaScript until it ends, and that of Rust
\* while it runs.
LEMMA FramesOf ==
  ASSUME NEW fn
  PROVE  LET own == IF TakesFrame(fn) THEN 1 ELSE 0 IN
         /\ own \in 0..1
         /\ Frames("wasm", fn) = own + 1 /\ Frames("idle", fn) = 0
         /\ \A pc \in {"args", "back", "error", "finally"} : Frames(pc, fn) = own
BY DEF Frames

\* A step from pc to another that keeps the frames.
LEMMA FramesKept ==
  ASSUME ShapeOK, stack' = stack, lost' = lost, call'.fn = call.fn,
         \/ call'.pc = call.pc
         \/ /\ call.pc \in {"args", "back", "error", "finally"}
            /\ call'.pc \in {"args", "back", "error", "finally"}
  PROVE  lost' \in Nat /\ stack' = lost' + Frames(call'.pc, call'.fn)
<1>1. lost \in Nat /\ stack = lost + Frames(call.pc, call.fn)
  BY DEF ShapeOK
<1>2. Frames(call'.pc, call'.fn) = Frames(call.pc, call.fn)
  BY FramesOf
<1>3. QED BY <1>1, <1>2

\* A step that abandons nothing, keeps what was and the struct of a method that runs,
\* and passes no block that was abandoned.
LEMMA AsideKept ==
  ASSUME ShapeOK, BlockInv, abandoned' = abandoned, call'.self = call.self,
         \A b \in Blocks : b \in abandoned \/ block[b] = "object" => block'[b] = block[b],
         call'.pc \in {"args", "wasm"} =>
           call.pc \in {"args", "wasm"} /\ abandoned \cap ToSet(call'.ptrs) = {}
  PROVE  AbandonedInv' /\ SelfInv'
<1>1. /\ abandoned \subseteq Blocks /\ \A b \in abandoned : block[b] \in {"arg", "object"}
      /\ call.self \in Blocks \cup {0}
  BY DEF BlockInv, AbandonedInv, ShapeOK
<1>2. AbandonedInv'
  BY <1>1 DEF AbandonedInv
<1>3. SelfInv'
  BY <1>1 DEF SelfInv, BlockInv
<1>4. QED BY <1>2, <1>3

\* A step that keeps the wrappers and their structs.
LEMMA OwnersKept ==
  ASSUME OwnerInv, ShapeOK, UNCHANGED <<wrappers, ptr, registered>>,
         \A b \in Blocks : block[b] = "object" => block'[b] = "object"
  PROVE  OwnerInv' /\ Owned' = Owned
<1>1. ptr \in [Objects -> Blocks \cup {0}]
  BY DEF ShapeOK
<1>2. \A o \in Objects : ptr[o] # 0 => block'[ptr[o]] = "object"
  BY <1>1 DEF OwnerInv
<1>3. QED BY <1>2 DEF OwnerInv, Owned

\* The structs of the wrappers are in use.
LEMMA OwnedBlocks ==
  ASSUME OwnerInv, ShapeOK
  PROVE  Owned \subseteq Blocks /\ \A b \in Owned : block[b] = "object"
BY DEF OwnerInv, ShapeOK, Owned

\* An argument is written whole to a block that was free.
LEMMA BlockPass ==
  ASSUME ShapeOK, BlockInv, call.pc = "args", HasRoom,
         block' = [block EXCEPT ![FreeBlock] = "arg"],
         Becomes(call', call.pc, Append(call.ptrs, FreeBlock), call.out, call.value),
         UNCHANGED <<stack, structs, strays>>
  PROVE  ShapeOK' /\ BlockInv'
<1> DEFINE b == FreeBlock
<1>1. b \in Blocks /\ block[b] = "free"
  BY FreeBlockFree
<1>2. /\ call.ptrs \in Seq(Blocks) /\ block \in [Blocks -> Contents] /\ call.fn \in Exports
      /\ call.value \in {"none", "result", "error", "exception"} 
      /\ wrappers' \subseteq Objects /\ ptr' \in [Objects -> Blocks \cup {0}]
      /\ registered' \in [Objects -> Blocks \cup {0}]
      /\ UNCHANGED <<wrappers, ptr, registered>>
      /\ stack' = stack /\ lost' = lost /\ abandoned' = abandoned
  BY DEF ShapeOK, structs, strays
<1>3. Becomes(call', "args", Append(call.ptrs, b), call.out, call.value)
  OBVIOUS
<1> HIDE DEF b
<1>4. Append(call.ptrs, b) \in Seq(Blocks)
      /\ ToSet(Append(call.ptrs, b)) = ToSet(call.ptrs) \cup {b}
  BY <1>1, <1>2, AppendSet
<1>5. /\ block' \in [Blocks -> Contents] /\ block'[b] = "arg"
      /\ \A a \in Blocks : a # b => block'[a] = block[a]
  BY <1>1, <1>2 DEF b, Contents
<1>6. /\ Whole(call') /\ call'.pc = "args" /\ call'.fn = call.fn /\ call'.value = call.value
      /\ call'.ptrs = Append(call.ptrs, b) /\ call'.out = call.out /\ call'.self = call.self
  BY <1>3 DEF Becomes
<1>12. ShapeOK'
  <2>1. /\ call'.ptrs \in Seq(Blocks) /\ call.pc # "idle"
        /\ lost' \in Nat /\ stack' = lost' + Frames(call'.pc, call'.fn)
    BY <1>2, <1>4, <1>6, FramesKept
  <2>2. QED BY <1>2, <1>5, <1>6, <2>1, ShapeKept
<1>7. OwnerInv' /\ Owned' = Owned
  BY <1>1, <1>2, <1>5, OwnersKept DEF BlockInv
<1>8. PassedInv'
  <2>1. ToSet(call.ptrs) \subseteq Blocks
    BY <1>2, SetOfPtrs
  <2>2. call.out = 0 /\ \A a \in ToSet(call.ptrs) : block[a] = "arg"
    BY DEF BlockInv, PassedInv
  <2>3. \A a \in ToSet(call'.ptrs) : block'[a] = "arg"
    BY <1>4, <1>5, <1>6, <2>1, <2>2
  <2>4. QED BY <1>6, <2>2, <2>3 DEF PassedInv
<1>9. ResultInv'
  BY <1>6 DEF ResultInv
<1>13. AbandonedInv' /\ SelfInv'
  <2>1. abandoned \cap (ToSet(call.ptrs) \cup {b}) = {} /\ b \notin abandoned
    BY <1>1 DEF BlockInv, AbandonedInv
  <2>2. \A a \in Blocks : a \in abandoned \/ block[a] = "object" => block'[a] = block[a]
    BY <1>1, <1>5, <2>1
  <2>3. call'.pc \in {"args", "wasm"} =>
          call.pc \in {"args", "wasm"} /\ abandoned \cap ToSet(call'.ptrs) = {}
    BY <1>4, <1>6, <2>1
  <2>4. QED BY <1>2, <1>6, <2>2, <2>3, AsideKept
<1>10. UsedInv'
  <2>1. Used' = Used \cup {b}
    BY <1>1, <1>5 DEF Used
  <2>2. InCall = ToSet(call.ptrs) /\ InCall' = ToSet(call'.ptrs)
    BY <1>6 DEF InCall
  <2>3. QED BY <1>2, <1>4, <1>6, <1>7, <2>1, <2>2 DEF UsedInv, BlockInv
<1>11. QED BY <1>12, <1>7, <1>8, <1>9, <1>10, <1>13 DEF BlockInv


\* A step that changes neither the call nor the blocks.
LEMMA BlockSame ==
  ASSUME ShapeOK, BlockInv, UNCHANGED <<block, call, stack, structs, strays>>
  PROVE  ShapeOK' /\ BlockInv'
<1>1. /\ block' = block /\ call' = call /\ stack' = stack
      /\ wrappers' = wrappers /\ ptr' = ptr /\ registered' = registered
      /\ lost' = lost /\ abandoned' = abandoned
  BY DEF structs, strays
<1>2. ShapeOK'
  BY <1>1 DEF ShapeOK
<1>3. InCall' = InCall /\ Used' = Used /\ Owned' = Owned
  BY <1>1 DEF InCall, Used, Owned
<1>4. OwnerInv' /\ PassedInv' /\ ResultInv' /\ AbandonedInv' /\ SelfInv' /\ UsedInv'
  BY <1>1, <1>3 DEF BlockInv, OwnerInv, PassedInv, ResultInv, AbandonedInv, SelfInv, UsedInv
<1>5. QED BY <1>2, <1>4 DEF BlockInv

\* A call starts.
LEMMA BlockBegin ==
  ASSUME ShapeOK, BlockInv, NEW f \in Exports, NEW p, Begin(f, p),
         p = 0 \/ \E o \in Objects : p = ptr[o]
  PROVE  ShapeOK' /\ BlockInv'
<1>1. /\ call.pc = "idle"
      /\ call' = [NoCall EXCEPT !.pc = "args", !.fn = f, !.self = p]
      /\ stack' = IF TakesFrame(f) THEN stack + 1 ELSE stack
      /\ block' = block /\ lost' = lost /\ abandoned' = abandoned
      /\ wrappers' = wrappers /\ ptr' = ptr /\ registered' = registered
  BY DEF Begin, memory, structs, strays
<1>2. call' = [pc |-> "args", fn |-> f, self |-> p, ptrs |-> <<>>, out |-> 0, value |-> "none"]
  BY <1>1, BeginCall
<1>3. /\ Whole(call') /\ call'.pc = "args" /\ call'.fn = f /\ call'.ptrs = <<>>
      /\ call'.out = 0 /\ call'.value = "none" /\ call'.self = p
  BY <1>2 DEF Whole
<1>4. ShapeOK'
  <2>1. stack = lost /\ lost \in Nat
    BY <1>1, FramesOf DEF ShapeOK
  <2>2. lost' \in Nat /\ stack' = lost' + Frames(call'.pc, call'.fn)
    BY <1>1, <1>3, <2>1, FramesOf
  <2>3. call'.ptrs \in Seq(Blocks)
    BY <1>3, SetOfPtrs
  <2>4. /\ block' \in [Blocks -> Contents] /\ wrappers' \subseteq Objects
        /\ ptr' \in [Objects -> Blocks \cup {0}] /\ registered' \in [Objects -> Blocks \cup {0}]
        /\ call'.self \in Blocks \cup {0}
    BY <1>1, <1>3 DEF ShapeOK
  <2>5. QED BY <1>3, <2>2, <2>3, <2>4 DEF ShapeOK, Whole
<1>5. OwnerInv' /\ Owned' = Owned
  BY <1>1, OwnersKept DEF BlockInv
<1>6. InCall = {} /\ InCall' = {}
  BY <1>1, <1>3, SetOfPtrs DEF InCall
<1>7. PassedInv' /\ ResultInv'
  BY <1>3, SetOfPtrs DEF PassedInv, ResultInv
<1>10. AbandonedInv' /\ SelfInv'
  <2>1. p # 0 => block'[p] = "object"
    BY <1>1 DEF BlockInv, OwnerInv
  <2>2. abandoned \cap ToSet(call'.ptrs) = {}
    BY <1>3, SetOfPtrs
  <2>3. QED BY <1>1, <1>3, <2>1, <2>2 DEF BlockInv, AbandonedInv, SelfInv
<1>8. UsedInv'
  BY <1>1, <1>5, <1>6 DEF UsedInv, BlockInv, Used
<1>9. QED BY <1>4, <1>5, <1>7, <1>8, <1>10 DEF BlockInv

\* Wasm is entered.
LEMMA BlockEnter ==
  ASSUME ShapeOK, BlockInv, Enter
  PROVE  ShapeOK' /\ BlockInv'
<1>1. /\ call.pc = "args" /\ block' = block /\ stack' = stack + 1
      /\ lost' = lost /\ abandoned' = abandoned
      /\ wrappers' = wrappers /\ ptr' = ptr /\ registered' = registered
  BY DEF Enter, memory, structs, strays
<1>2. /\ Whole(call') /\ call'.pc = "wasm" /\ call'.fn = call.fn /\ call'.ptrs = call.ptrs
      /\ call'.out = call.out /\ call'.value = call.value /\ call'.self = call.self
  BY CallSteps DEF Becomes
<1>3. ShapeOK'
  <2>1. /\ block' \in [Blocks -> Contents] /\ wrappers' \subseteq Objects
        /\ ptr' \in [Objects -> Blocks \cup {0}] /\ registered' \in [Objects -> Blocks \cup {0}]
        /\ call'.ptrs \in Seq(Blocks)
        /\ call'.value \in {"none", "result", "error", "exception"}
    BY <1>1, <1>2 DEF ShapeOK
  <2>2. lost' \in Nat /\ stack' = lost' + Frames(call'.pc, call'.fn)
    <3>1. lost \in Nat /\ stack = lost + Frames(call.pc, call.fn)
      BY DEF ShapeOK
    <3>2. Frames("args", call.fn) \in 0..1
          /\ Frames("wasm", call.fn) = Frames("args", call.fn) + 1
      BY FramesOf
    <3>3. QED BY <1>1, <1>2, <3>1, <3>2
  <2>3. QED BY <1>1, <1>2, <2>1, <2>2, ShapeKept
<1>4. OwnerInv' /\ Owned' = Owned
  BY <1>1, OwnersKept DEF BlockInv
<1>5. InCall = ToSet(call.ptrs) /\ InCall' = ToSet(call.ptrs)
  BY <1>1, <1>2 DEF InCall
<1>6. PassedInv' /\ ResultInv'
  BY <1>1, <1>2 DEF PassedInv, ResultInv, BlockInv
<1>9. AbandonedInv' /\ SelfInv'
  BY <1>1, <1>2 DEF BlockInv, AbandonedInv, SelfInv
<1>7. UsedInv'
  BY <1>1, <1>4, <1>5 DEF UsedInv, BlockInv, Used
<1>8. QED BY <1>3, <1>4, <1>6, <1>7, <1>9 DEF BlockInv

\* A call is left by an exception or a trap.
LEMMA BlockLost ==
  ASSUME ShapeOK, BlockInv, RefuseArg \/ EnterNull \/ Trap
  PROVE  ShapeOK' /\ BlockInv'
<1>1. /\ call.pc \in {"args", "wasm"} /\ block' = block
      /\ wrappers' = wrappers /\ ptr' = ptr /\ registered' = registered
  BY DEF RefuseArg, EnterNull, Trap, memory, structs
<1>2. /\ Whole(call') /\ call'.pc = "finally" /\ call'.fn = call.fn /\ call'.ptrs = call.ptrs
      /\ call'.out = call.out /\ call'.value = "exception" /\ call'.self = call.self
  BY CallSteps DEF Becomes
<1>3. lost' \in Nat /\ stack' = lost' + Frames(call'.pc, call'.fn)
  <2>1. /\ lost \in Nat /\ stack = lost + Frames(call.pc, call.fn)
        /\ call'.pc = "finally" /\ call'.fn = call.fn
    BY <1>2 DEF ShapeOK
  <2>2. /\ Frames("args", call.fn) \in 0..1
        /\ Frames("wasm", call.fn) = Frames("args", call.fn) + 1
        /\ Frames("finally", call.fn) = Frames("args", call.fn)
    BY FramesOf
  <2>3. CASE RefuseArg
    BY <2>1, <2>2, <2>3 DEF RefuseArg
  <2>4. CASE EnterNull
    BY <2>1, <2>2, <2>4 DEF EnterNull, ThrowThrough
  <2>5. CASE Trap
    BY <2>1, <2>2, <2>5 DEF Trap
  <2>6. QED BY <2>3, <2>4, <2>5
<1>4. ShapeOK'
  <2>1. /\ block' \in [Blocks -> Contents] /\ wrappers' \subseteq Objects
        /\ ptr' \in [Objects -> Blocks \cup {0}] /\ registered' \in [Objects -> Blocks \cup {0}]
        /\ call'.ptrs \in Seq(Blocks)
    BY <1>1, <1>2 DEF ShapeOK
  <2>2. QED BY <1>1, <1>2, <1>3, <2>1, ShapeKept
<1>5. OwnerInv' /\ Owned' = Owned
  BY <1>1, OwnersKept DEF BlockInv
<1>6. PICK also : /\ abandoned' = abandoned \cup ToSet(call.ptrs) \cup also
                  /\ also = {} \/ also = {call.self} \ {0}
  BY DEF RefuseArg, EnterNull, Trap, Abandon
<1>7. /\ ToSet(call.ptrs) \subseteq Blocks /\ also \subseteq Blocks
      /\ \A b \in ToSet(call.ptrs) : block[b] = "arg"
      /\ \A b \in also : block[b] = "object"
  <2>1. ToSet(call.ptrs) \subseteq Blocks /\ call.self \in Blocks \cup {0}
    BY SetOfPtrs DEF ShapeOK
  <2>2. call.self # 0 => block[call.self] = "object"
    BY <1>1 DEF BlockInv, SelfInv
  <2>3. QED BY <1>1, <1>6, <2>1, <2>2 DEF BlockInv, PassedInv
<1>8. AbandonedInv' /\ SelfInv'
  BY <1>1, <1>2, <1>6, <1>7 DEF BlockInv, AbandonedInv, SelfInv
<1>9. also \subseteq Used
  BY <1>7 DEF Used
<1>10. UsedInv'
  <2>1. InCall = ToSet(call.ptrs)
    BY <1>1 DEF InCall
  <2>2. InCall' = {}
    BY <1>1, <1>2 DEF InCall, BlockInv, PassedInv
  <2>3. Used' = Used /\ Used = Owned \cup InCall \cup abandoned
    BY <1>1 DEF Used, BlockInv, UsedInv
  <2>4. QED BY <1>5, <1>6, <1>9, <2>1, <2>2, <2>3 DEF UsedInv
<1>11. PassedInv' /\ ResultInv'
  BY <1>1, <1>2 DEF PassedInv, ResultInv, BlockInv
<1>12. QED BY <1>4, <1>5, <1>8, <1>10, <1>11 DEF BlockInv

\* Rust drops its arguments: those blocks are free, b holds r, and no block that
\* a wrapper has changes.
LEMMA ReturnedBlocks ==
  ASSUME ShapeOK, BlockInv, call.pc = "wasm", NEW r \in Contents, NEW b,
         b \in Blocks => block[b] = "free"
  PROVE  /\ Returned(b, r) \in [Blocks -> Contents]
         /\ b \in Blocks => Returned(b, r)[b] = r
         /\ \A a \in Blocks : a # b /\ a \in ToSet(call.ptrs) => Returned(b, r)[a] = "free"
         /\ \A a \in Blocks : a # b /\ a \notin ToSet(call.ptrs) => Returned(b, r)[a] = block[a]
         /\ \A a \in Blocks : block[a] = "object" => Returned(b, r)[a] = "object"
<1>1. /\ block \in [Blocks -> Contents] /\ "free" \in Contents
      /\ \A a \in ToSet(call.ptrs) : block[a] = "arg"
  BY DEF ShapeOK, BlockInv, PassedInv, Contents
<1>2. \A a \in Blocks : Returned(b, r)[a] =
        IF a = b THEN r ELSE IF a \in ToSet(call.ptrs) THEN "free" ELSE block[a]
  BY DEF Returned
<1>3. Returned(b, r) \in [Blocks -> Contents]
  BY <1>1 DEF Returned
<1>4. QED BY <1>1, <1>2, <1>3

\* Rust returns, with its result in a block or without one, or an error.
LEMMA BlockReturn ==
  ASSUME ShapeOK, BlockInv,
         (\E g \in Grown : Return(g)) \/ ReturnErr
  PROVE  ShapeOK' /\ BlockInv'
<1>1. /\ call.pc = "wasm" /\ stack' = stack - 1 /\ lost' = lost /\ abandoned' = abandoned
      /\ wrappers' = wrappers /\ ptr' = ptr /\ registered' = registered
  BY DEF Return, ReturnErr, structs, strays
<1>2. /\ wrappers' \subseteq Objects
      /\ ptr' \in [Objects -> Blocks \cup {0}] /\ registered' \in [Objects -> Blocks \cup {0}]
      /\ call.value \in {"none", "result", "error", "exception"}
      /\ call.fn \in Exports /\ block \in [Blocks -> Contents]
  BY <1>1 DEF ShapeOK
<1>3. call.fn.ret \in {"bytes", "string", "object", "bool", "none"}
      /\ (call.fn.ret = "string" => ~call.fn.fails)
  BY <1>2, ExportsOK
<1>4. <<>> \in Seq(Blocks) /\ ToSet(<<>>) = {} /\ ToSet(call.ptrs) \subseteq Blocks
  BY SetOfPtrs DEF ShapeOK
<1>5. InCall = ToSet(call.ptrs)
  BY <1>1 DEF InCall
<1>6. OwnerInv /\ Owned \subseteq Blocks /\ \A a \in Owned : block[a] = "object"
  BY OwnedBlocks DEF BlockInv
<1>7. /\ \A a \in ToSet(call.ptrs) : block[a] = "arg"
      /\ Used = Owned \cup InCall \cup abandoned
      /\ abandoned \subseteq Blocks /\ \A a \in abandoned : block[a] \in {"arg", "object"}
      /\ abandoned \cap ToSet(call.ptrs) = {}
  BY <1>1 DEF BlockInv, PassedInv, UsedInv, AbandonedInv
<1>8. "free" \in Contents /\ "object" \in Contents /\ "result" \in Contents
  BY DEF Contents
<1>12. ASSUME call'.fn = call.fn, call'.pc \in {"back", "error"}
       PROVE  lost' \in Nat /\ stack' = lost' + Frames(call'.pc, call'.fn)
  <2>1. lost \in Nat /\ stack = lost + Frames("wasm", call.fn)
    BY <1>1 DEF ShapeOK
  <2>2. /\ Frames("back", call.fn) \in 0..1
        /\ Frames("wasm", call.fn) = Frames("back", call.fn) + 1
        /\ Frames("error", call.fn) = Frames("back", call.fn)
    BY FramesOf
  <2>3. QED BY <1>1, <1>12, <2>1, <2>2
<1>9. ASSUME (\E g \in Grown : Return(g) /\ call.fn.ret \in {"bool", "none"}) \/ ReturnErr
      PROVE  ShapeOK' /\ BlockInv'
  <2>1. block' = Returned(0, "free") /\ 0 \notin Blocks
    BY <1>9 DEF Return, ReturnErr, Blocks
  <2>2. /\ block' \in [Blocks -> Contents]
        /\ \A a \in ToSet(call.ptrs) : block'[a] = "free"
        /\ \A a \in Blocks \ ToSet(call.ptrs) : block'[a] = block[a]
        /\ \A a \in Blocks : block[a] = "object" => block'[a] = "object"
    <3> DEFINE z == 0
               r == "free"
    <3>1. r \in Contents /\ (z \in Blocks => block[z] = "free") /\ block' = Returned(z, r)
      BY <1>8, <2>1
    <3>2. z \notin Blocks /\ r = "free"
      BY <2>1
    <3> HIDE DEF z, r
    <3>3. QED BY <1>1, <1>4, <3>1, <3>2, ReturnedBlocks
  <2>3. /\ Whole(call') /\ call'.fn = call.fn /\ call'.ptrs = <<>> /\ call'.value = call.value
        /\ call'.self = call.self
        /\ \/ call'.pc = "back" /\ call.fn.ret \in {"bool", "none"}
           \/ call'.pc = "error" /\ call.fn.fails
    <3>1. CASE \E g \in Grown : Return(g) /\ call.fn.ret \in {"bool", "none"}
      BY <3>1, CallSteps DEF Becomes
    <3>2. CASE ReturnErr
      <4>1. call.fn.fails
        BY <3>2 DEF ReturnErr
      <4>2. QED BY <3>2, <4>1, CallSteps DEF Becomes
    <3>3. QED BY <1>9, <3>1, <3>2
  <2>4. ShapeOK'
    BY <1>1, <1>2, <1>4, <1>12, <2>2, <2>3, ShapeKept
  <2>5. OwnerInv' /\ Owned' = Owned
    BY <1>1, <1>6, <2>2, OwnersKept
  <2>6. InCall' = {}
    BY <2>3 DEF InCall, Results
  <2>7. PassedInv' /\ ResultInv'
    BY <1>3, <2>3 DEF PassedInv, ResultInv
  <2>8. UsedInv'
    <3>1. Used' = Used \ ToSet(call.ptrs)
      BY <1>4, <2>2 DEF Used
    <3>2. Owned \cap ToSet(call.ptrs) = {}
      BY <1>6, <1>7
    <3>3. QED BY <1>1, <1>5, <1>7, <2>5, <2>6, <3>1, <3>2 DEF UsedInv
  <2>10. AbandonedInv' /\ SelfInv'
    <3>1. \A a \in Blocks : a \in abandoned \/ block[a] = "object" => block'[a] = block[a]
      BY <1>7, <2>2
    <3>2. call'.pc \notin {"args", "wasm"}
      BY <2>3
    <3>3. QED BY <1>1, <2>3, <3>1, <3>2, AsideKept
  <2>9. QED BY <2>4, <2>5, <2>7, <2>8, <2>10 DEF BlockInv
<1>10. ASSUME NEW g \in Grown, Return(g), call.fn.ret \notin {"bool", "none"}
       PROVE  ShapeOK' /\ BlockInv'
  <2> DEFINE b == FreeBlock
             r == IF call.fn.ret = "object" THEN "object" ELSE "result"
  <2>1. block' = Returned(b, r) /\ HasRoom
    BY <1>10 DEF Return
  <2>2. b \in Blocks /\ block[b] = "free"
    BY <2>1, FreeBlockFree
  <2>3. r \in Contents /\ r # "free"
    BY <1>8
  <2>4. /\ Whole(call') /\ call'.pc = "back" /\ call'.fn = call.fn /\ call'.ptrs = <<>>
        /\ call'.out = b /\ call'.value = call.value /\ call'.self = call.self
    BY <1>10, CallSteps DEF Becomes
  <2> HIDE DEF b
  <2>5. /\ block' \in [Blocks -> Contents] /\ block'[b] = r
        /\ \A a \in ToSet(call.ptrs) : a # b => block'[a] = "free"
        /\ \A a \in Blocks \ ToSet(call.ptrs) : a # b => block'[a] = block[a]
        /\ \A a \in Blocks : block[a] = "object" => block'[a] = "object"
    <3> HIDE DEF r
    <3>1. QED BY <1>1, <1>4, <2>1, <2>2, <2>3, ReturnedBlocks
  <2>6. ShapeOK'
    <3>1. call'.ptrs \in Seq(Blocks)
      BY <1>4, <2>4
    <3>2. QED BY <1>1, <1>2, <1>12, <2>4, <2>5, <3>1, ShapeKept
  <2>7. OwnerInv' /\ Owned' = Owned
    BY <1>1, <1>6, <2>5, OwnersKept
  <2>8. InCall' = {b}
    BY <1>3, <1>10, <2>4 DEF InCall, Results
  <2>9. b \notin Owned
    BY <1>6, <2>2
  <2>10. ResultInv'
    <3>1. \A o \in Objects : ptr'[o] # b
      BY <1>1, <2>2, <2>9, <1>2 DEF Owned, Blocks
    <3>2. QED BY <2>2, <2>4, <2>5, <3>1 DEF ResultInv
  <2>11. PassedInv'
    BY <2>4 DEF PassedInv
  <2>12. UsedInv'
    <3>1. b \notin ToSet(call.ptrs)
      BY <1>7, <2>2
    <3>2. Used' = (Used \ ToSet(call.ptrs)) \cup {b}
      BY <1>4, <2>2, <2>3, <2>5, <3>1 DEF Used
    <3>3. Owned \cap ToSet(call.ptrs) = {}
      BY <1>6, <1>7
    <3>4. QED BY <1>1, <1>5, <1>7, <2>7, <2>8, <3>2, <3>3 DEF UsedInv
  <2>14. AbandonedInv' /\ SelfInv'
    <3>1. \A a \in Blocks : a \in abandoned \/ block[a] = "object" => block'[a] = block[a]
      BY <1>7, <2>2, <2>5
    <3>2. call'.pc \notin {"args", "wasm"}
      BY <2>4
    <3>3. QED BY <1>1, <2>4, <3>1, <3>2, AsideKept
  <2>13. QED BY <2>6, <2>7, <2>10, <2>11, <2>12, <2>14 DEF BlockInv
<1>11. QED BY <1>9, <1>10

\* A result is read whole, through views of the buffer as it is.
LEMMA ReadWhole == Read = block[call.out]
BY ViewsCurrent DEF Read

\* The bytes of the result are copied and its block is freed.
LEMMA BlockTakeBytes ==
  ASSUME ShapeOK, BlockInv, TakeBytes
  PROVE  ShapeOK' /\ BlockInv'
<1> DEFINE b == call.out
<1>1. /\ call.pc = "back" /\ call.fn.ret = "bytes" /\ stack' = stack
      /\ lost' = lost /\ abandoned' = abandoned
      /\ wrappers' = wrappers /\ ptr' = ptr /\ registered' = registered
      /\ block' = [block EXCEPT ![b] = "free"]
  BY DEF TakeBytes, structs, strays
<1>2. b \in Blocks /\ block[b] = "result"
  BY <1>1 DEF BlockInv, ResultInv
<1>3. /\ Whole(call') /\ call'.pc = "finally" /\ call'.fn = call.fn /\ call'.ptrs = call.ptrs
      /\ call'.out = b /\ call'.value = "result" /\ call'.self = call.self
  BY <1>2, CallSteps, ReadWhole DEF Becomes
<1> HIDE DEF b
<1>4. /\ wrappers' \subseteq Objects
      /\ ptr' \in [Objects -> Blocks \cup {0}] /\ registered' \in [Objects -> Blocks \cup {0}]
      /\ call'.ptrs \in Seq(Blocks) /\ block \in [Blocks -> Contents]
  BY <1>1, <1>3 DEF ShapeOK
<1>5. /\ block' \in [Blocks -> Contents] /\ block'[b] = "free"
      /\ \A a \in Blocks : a # b => block'[a] = block[a]
  BY <1>1, <1>2, <1>4 DEF Contents
<1>6. ShapeOK'
  <2>1. lost' \in Nat /\ stack' = lost' + Frames(call'.pc, call'.fn)
    BY <1>1, <1>3, FramesKept
  <2>2. QED BY <1>1, <1>3, <1>4, <1>5, <2>1, ShapeKept
<1>7. OwnerInv' /\ Owned' = Owned
  BY <1>1, <1>2, <1>5, OwnersKept DEF BlockInv
<1>8. b \notin Owned
  BY <1>2, OwnedBlocks DEF BlockInv
<1>9. InCall = {b} /\ InCall' = {}
  BY <1>1, <1>3 DEF InCall, Results, b
<1>10. Used' = Used \ {b}
  BY <1>2, <1>5 DEF Used
<1>14. b \notin abandoned
  BY <1>2 DEF BlockInv, AbandonedInv
<1>11. PassedInv' /\ ResultInv' /\ UsedInv'
  BY <1>1, <1>3, <1>7, <1>8, <1>9, <1>10, <1>14 DEF PassedInv, ResultInv, UsedInv, BlockInv
<1>13. AbandonedInv' /\ SelfInv'
  <2>1. \A a \in Blocks : a \in abandoned \/ block[a] = "object" => block'[a] = block[a]
    BY <1>2, <1>5 DEF BlockInv, AbandonedInv
  <2>2. call'.pc \notin {"args", "wasm"}
    BY <1>3
  <2>3. QED BY <1>1, <1>3, <2>1, <2>2, AsideKept
<1>12. QED BY <1>6, <1>7, <1>11, <1>13 DEF BlockInv

\* A string is decoded, a number taken, an error thrown: the blocks stay.
LEMMA BlockTake ==
  ASSUME SlabInv, ShapeOK, BlockInv, TakeString \/ TakeNumber \/ Throw
  PROVE  ShapeOK' /\ BlockInv'
<1>1. /\ call.pc \in {"back", "error"} /\ stack' = stack /\ block' = block
      /\ lost' = lost /\ abandoned' = abandoned
      /\ wrappers' = wrappers /\ ptr' = ptr /\ registered' = registered
  BY DEF TakeString, TakeNumber, Throw, structs, memory, strays
<1>2. \/ call.pc = "back" /\ call.fn.ret = "string"
      \/ call.pc = "back" /\ call.fn.ret \in {"bool", "none"}
      \/ call.pc = "error" /\ call.fn.ret # "string"
  BY DEF TakeString, TakeNumber, Throw, BlockInv, ResultInv
<1>3. /\ Whole(call') /\ call'.pc = "finally" /\ call'.fn = call.fn /\ call'.ptrs = call.ptrs
      /\ call'.out = call.out /\ call'.value \in {"result", "error"} /\ call'.self = call.self
  <2>1. CASE TakeString
    <3>1. block[call.out] = "result"
      BY <2>1 DEF TakeString, BlockInv, ResultInv
    <3>2. QED BY <2>1, <3>1, CallSteps, ReadWhole DEF Becomes
  <2>2. CASE TakeNumber
    BY <2>2, CallSteps DEF Becomes
  <2>3. CASE Throw
    <3>1. heap[call.out].kind = "error"
      BY <2>3 DEF Throw, SlabInv
    <3>2. QED BY <2>3, <3>1, CallSteps DEF Becomes
  <2>4. QED BY <2>1, <2>2, <2>3
<1>4. ShapeOK'
  <2>1. /\ wrappers' \subseteq Objects
        /\ ptr' \in [Objects -> Blocks \cup {0}] /\ registered' \in [Objects -> Blocks \cup {0}]
        /\ call'.ptrs \in Seq(Blocks) /\ block' \in [Blocks -> Contents]
    BY <1>1, <1>3 DEF ShapeOK
  <2>2. lost' \in Nat /\ stack' = lost' + Frames(call'.pc, call'.fn)
    BY <1>1, <1>3, FramesKept
  <2>3. QED BY <1>1, <1>3, <2>1, <2>2, ShapeKept
<1>5. OwnerInv' /\ Owned' = Owned
  BY <1>1, OwnersKept DEF BlockInv
<1>6. InCall' = InCall
  <2>1. call.pc = "back" /\ call.fn.ret = "string" => call.out # 0
    BY DEF BlockInv, ResultInv, Blocks
  <2>2. QED BY <1>2, <1>3, <2>1 DEF InCall, Results
<1>7. PassedInv'
  BY <1>3 DEF PassedInv
<1>8. ResultInv'
  BY <1>1, <1>2, <1>3 DEF ResultInv, BlockInv
<1>9. UsedInv'
  BY <1>1, <1>5, <1>6 DEF UsedInv, BlockInv, Used
<1>11. AbandonedInv' /\ SelfInv'
  <2>1. call'.pc \notin {"args", "wasm"}
    BY <1>3
  <2>2. QED BY <1>1, <1>3, <2>1, AsideKept
<1>10. QED BY <1>4, <1>5, <1>7, <1>8, <1>9, <1>11 DEF BlockInv

\* The struct that came back gets a wrapper.
LEMMA BlockWrap ==
  ASSUME ShapeOK, BlockInv, NEW o \in Objects, Wrap(o)
  PROVE  ShapeOK' /\ BlockInv'
<1> DEFINE b == call.out
<1>1. /\ call.pc = "back" /\ call.fn.ret = "object" /\ stack' = stack
      /\ lost' = lost /\ abandoned' = abandoned
      /\ o \notin wrappers /\ wrappers' = wrappers \cup {o}
      /\ ptr' = [ptr EXCEPT ![o] = b] /\ registered' = [registered EXCEPT ![o] = b]
      /\ block' = block
  BY DEF Wrap, strays
<1>2. b \in Blocks /\ block[b] = "object" /\ \A q \in Objects : ptr[q] # b
  BY <1>1 DEF BlockInv, ResultInv
<1>3. /\ Whole(call') /\ call'.pc = "finally" /\ call'.fn = call.fn /\ call'.ptrs = call.ptrs
      /\ call'.out = b /\ call'.value = "result" /\ call'.self = call.self
  BY CallSteps DEF Becomes
<1> HIDE DEF b
<1>4. /\ wrappers \subseteq Objects /\ ptr \in [Objects -> Blocks \cup {0}]
      /\ registered \in [Objects -> Blocks \cup {0}]
      /\ call'.ptrs \in Seq(Blocks) /\ block' \in [Blocks -> Contents]
  BY <1>1, <1>3 DEF ShapeOK
<1>5. /\ ptr' \in [Objects -> Blocks \cup {0}] /\ registered' \in [Objects -> Blocks \cup {0}]
      /\ ptr'[o] = b /\ registered'[o] = b
      /\ \A q \in Objects : q # o => ptr'[q] = ptr[q] /\ registered'[q] = registered[q]
      /\ wrappers' \subseteq Objects
  BY <1>1, <1>2, <1>4
<1>6. ShapeOK'
  <2>1. lost' \in Nat /\ stack' = lost' + Frames(call'.pc, call'.fn)
    BY <1>1, <1>3, FramesKept
  <2>2. QED BY <1>1, <1>3, <1>4, <1>5, <2>1, ShapeKept
<1>7. b # 0
  BY <1>2 DEF Blocks
<1>8. OwnerInv'
  BY <1>1, <1>2, <1>5, <1>7 DEF OwnerInv, BlockInv
<1>9. ptr[o] = 0
  BY <1>1 DEF OwnerInv, BlockInv
<1>10. Owned' = Owned \cup {b}
  BY <1>5, <1>7, <1>9 DEF Owned
<1>11. InCall = {b} /\ InCall' = {}
  BY <1>1, <1>3 DEF InCall, Results, b
<1>12. PassedInv' /\ ResultInv'
  BY <1>1, <1>3 DEF PassedInv, ResultInv
<1>13. UsedInv'
  BY <1>1, <1>10, <1>11 DEF UsedInv, BlockInv, Used
<1>15. AbandonedInv' /\ SelfInv'
  <2>1. call'.pc \notin {"args", "wasm"}
    BY <1>3
  <2>2. QED BY <1>1, <1>3, <2>1, AsideKept
<1>14. QED BY <1>6, <1>8, <1>12, <1>13, <1>15 DEF BlockInv

\* The finally clause frees the block of a string.
LEMMA BlockFinally ==
  ASSUME ShapeOK, BlockInv, Finally
  PROVE  ShapeOK' /\ BlockInv'
<1> DEFINE b == call.out
           out == IF call.fn.ret = "string" THEN {b} \ {0} ELSE {}
<1>1. /\ call.pc = "finally" /\ lost' = lost /\ abandoned' = abandoned
      /\ stack' = IF TakesFrame(call.fn) THEN stack - 1 ELSE stack
      /\ wrappers' = wrappers /\ ptr' = ptr /\ registered' = registered
      /\ block' = IF call.fn.ret = "string" /\ b # 0 THEN [block EXCEPT ![b] = "free"] ELSE block
      /\ call' = [NoCall EXCEPT !.value = call.value]
  BY DEF Finally, structs, strays
<1>2. call' = [pc |-> "idle", fn |-> nen_generate_nonce, self |-> 0, ptrs |-> <<>>,
               out |-> 0, value |-> call.value]
  BY <1>1 DEF NoCall
<1>3. call'.pc = "idle" /\ call'.fn = nen_generate_nonce /\ call'.ptrs = <<>>
      /\ call'.value = call.value /\ call'.self = 0 /\ Whole(call')
  BY <1>2 DEF Whole
<1>4. out \subseteq Blocks /\ \A a \in out : block[a] = "result"
  BY <1>1 DEF BlockInv, ResultInv
<1>5. block \in [Blocks -> Contents]
  BY DEF ShapeOK
<1>6. /\ block' \in [Blocks -> Contents]
      /\ \A a \in out : block'[a] = "free"
      /\ \A a \in Blocks \ out : block'[a] = block[a]
  BY <1>1, <1>4, <1>5 DEF Contents
<1>7. InCall = out /\ InCall' = {}
  BY <1>1, <1>3 DEF InCall, Results
<1> HIDE DEF b, out
<1>8. ShapeOK'
  <2>1. lost \in Nat /\ stack = lost + Frames("finally", call.fn)
    BY <1>1 DEF ShapeOK
  <2>2. lost' \in Nat /\ stack' = lost' + Frames(call'.pc, call'.fn)
    BY <1>1, <1>3, <2>1, FramesOf
  <2>3. call'.ptrs \in Seq(Blocks) /\ call'.fn \in Exports
    BY <1>3, SetOfPtrs DEF Exports
  <2>4. /\ wrappers' \subseteq Objects
        /\ ptr' \in [Objects -> Blocks \cup {0}] /\ registered' \in [Objects -> Blocks \cup {0}]
        /\ call'.self \in Blocks \cup {0} /\ call'.value \in {"none", "result", "error", "exception"}
    BY <1>1, <1>3 DEF ShapeOK
  <2>5. QED BY <1>3, <1>6, <2>2, <2>3, <2>4 DEF ShapeOK, Whole
<1>9. OwnerInv' /\ Owned' = Owned
  BY <1>1, <1>4, <1>6, OwnersKept DEF BlockInv
<1>10. Owned \cap out = {}
  BY <1>4, OwnedBlocks DEF BlockInv
<1>11. Used' = Used \ out
  BY <1>4, <1>6 DEF Used
<1>12. PassedInv' /\ ResultInv'
  BY <1>3 DEF PassedInv, ResultInv
<1>15. abandoned \cap out = {}
  BY <1>4 DEF BlockInv, AbandonedInv
<1>13. UsedInv'
  BY <1>1, <1>7, <1>9, <1>10, <1>11, <1>15 DEF UsedInv, BlockInv
<1>16. AbandonedInv' /\ SelfInv'
  <2>1. abandoned \subseteq Blocks /\ \A a \in abandoned : block'[a] \in {"arg", "object"}
    BY <1>6, <1>15 DEF BlockInv, AbandonedInv
  <2>2. QED BY <1>1, <1>3, <2>1 DEF AbandonedInv, SelfInv
<1>14. QED BY <1>8, <1>9, <1>12, <1>13, <1>16 DEF BlockInv

\* A struct is freed by free() or by its wrapper's finalizer.
LEMMA BlockFree ==
  ASSUME ShapeOK, BlockInv, NEW o \in Objects, FreeWrapper(o) \/ Collect(o)
  PROVE  ShapeOK' /\ BlockInv'
<1> DEFINE b == ptr[o]
<1>1. /\ ptr \in [Objects -> Blocks \cup {0}] /\ registered \in [Objects -> Blocks \cup {0}]
      /\ wrappers \subseteq Objects /\ block \in [Blocks -> Contents]
  BY DEF ShapeOK
<1>2. /\ \A q \in Objects : registered[q] = ptr[q]
      /\ \A q \in Objects : ptr[q] # 0 => block[ptr[q]] = "object" /\ q \in wrappers
      /\ \A q, p \in Objects : q # p /\ ptr[q] # 0 => ptr[p] # ptr[q]
  BY DEF BlockInv, OwnerInv
<1>3. /\ call.pc = "idle" /\ call' = call /\ stack' = stack
      /\ lost' = lost /\ abandoned' = abandoned
      /\ ptr' = [ptr EXCEPT ![o] = 0] /\ registered' = [registered EXCEPT ![o] = 0]
      /\ block' = Freed(b)
      /\ wrappers' = wrappers \/ wrappers' = wrappers \ {o}
  BY <1>2 DEF FreeWrapper, Collect, strays
<1>4. b \in Blocks \cup {0} /\ 0 \notin Blocks
  BY <1>1 DEF Blocks
<1> HIDE DEF b
<1>5. /\ block' \in [Blocks -> Contents]
      /\ b \in Blocks \ abandoned => block'[b] = "free"
      /\ \A a \in Blocks : a # b \/ a \in abandoned => block'[a] = block[a]
  BY <1>1, <1>3, <1>4 DEF Contents, Freed
<1>6. /\ ptr' \in [Objects -> Blocks \cup {0}] /\ registered' \in [Objects -> Blocks \cup {0}]
      /\ ptr'[o] = 0 /\ registered'[o] = 0
      /\ \A q \in Objects : q # o => ptr'[q] = ptr[q] /\ registered'[q] = registered[q]
      /\ wrappers' \subseteq Objects /\ wrappers \subseteq wrappers' \cup {o}
  BY <1>1, <1>3
<1>7. ShapeOK'
  BY <1>3, <1>5, <1>6 DEF ShapeOK
<1>8. OwnerInv'
  <2>1. \A q \in Objects : ptr'[q] # 0 => q # o /\ ptr'[q] = ptr[q] /\ ptr[q] \in Blocks /\ ptr[q] # b
    BY <1>1, <1>2, <1>6 DEF b
  <2>2. QED BY <1>2, <1>5, <1>6, <2>1 DEF OwnerInv
<1>9. Owned' = Owned \ {b}
  BY <1>2, <1>6 DEF Owned, b
<1>10. InCall = {} /\ InCall' = {}
  BY <1>3 DEF InCall
<1>11. Used' = Used \ ({b} \ abandoned)
  BY <1>4, <1>5 DEF Used
<1>12. PassedInv' /\ ResultInv'
  BY <1>3 DEF PassedInv, ResultInv
<1>13. UsedInv'
  BY <1>3, <1>9, <1>10, <1>11 DEF UsedInv, BlockInv
<1>15. AbandonedInv' /\ SelfInv'
  BY <1>3, <1>5 DEF BlockInv, AbandonedInv, SelfInv
<1>14. QED BY <1>7, <1>8, <1>12, <1>13, <1>15 DEF BlockInv

\* A second free() throws through wasm, and frees nothing.
LEMMA BlockFreeAgain ==
  ASSUME ShapeOK, BlockInv, NEW o \in Objects, FreeAgain(o)
  PROVE  ShapeOK' /\ BlockInv'
<1>1. /\ call.pc = "idle" /\ call' = call /\ block' = block /\ abandoned' = abandoned
      /\ wrappers' = wrappers /\ ptr' = ptr /\ registered' = registered
  BY DEF FreeAgain, memory, structs
<1>2. lost' \in Nat /\ stack' = lost' + Frames(call'.pc, call'.fn)
  <2>1. lost \in Nat /\ stack = lost
    BY <1>1, FramesOf DEF ShapeOK
  <2>2. Frames(call'.pc, call'.fn) = 0
    BY <1>1, FramesOf
  <2>3. QED BY <2>1, <2>2 DEF FreeAgain, ThrowThrough
<1>3. ShapeOK'
  BY <1>1, <1>2 DEF ShapeOK
<1>4. InCall' = InCall /\ Used' = Used /\ Owned' = Owned
  BY <1>1 DEF InCall, Used, Owned
<1>5. QED
  BY <1>1, <1>3, <1>4
  DEF BlockInv, OwnerInv, PassedInv, ResultInv, AbandonedInv, SelfInv, UsedInv

LEMMA BlockStep ==
  ASSUME SlabInv, ShapeOK, BlockInv, [Next]_vars
  PROVE  ShapeOK' /\ BlockInv'
<1>1. CASE UNCHANGED vars
  BY <1>1, BlockSame DEF vars, memory
<1>2. ASSUME NEW f \in Exports, NEW p, Begin(f, p),
             p = 0 \/ \E o \in Objects : p = ptr[o]
      PROVE  ShapeOK' /\ BlockInv'
  BY <1>2, BlockBegin
<1>3. ASSUME NEW g, PassBytes(g)
      PROVE  ShapeOK' /\ BlockInv'
  <2>1. /\ call.pc = "args" /\ HasRoom /\ UNCHANGED <<stack, structs, strays>>
        /\ block' = [block EXCEPT ![FreeBlock] = "arg"]
    <3> DEFINE x == Through(Current(u8, g), g, "arg")
    <3>1. /\ call.pc = "args" /\ HasRoom /\ UNCHANGED <<stack, structs, strays>>
          /\ block' = [block EXCEPT ![FreeBlock] = x]
      BY <1>3 DEF PassBytes, slab
    <3>2. x = "arg"
      BY ViewsCurrent
    <3> HIDE DEF x
    <3>3. QED BY <3>1, <3>2
  <2>2. Becomes(call', call.pc, Append(call.ptrs, FreeBlock), call.out, call.value)
    BY <1>3, CallSteps
  <2>3. QED BY <2>1, <2>2, BlockPass
<1>4. ASSUME NEW g1, NEW g2, NEW g3, PassString(g1, g2, g3)
      PROVE  ShapeOK' /\ BlockInv'
  <2>1. /\ call.pc = "args" /\ HasRoom /\ UNCHANGED <<stack, structs, strays>>
        /\ block' = [block EXCEPT ![FreeBlock] = "arg"]
    <3> DEFINE x == IF Through(Current(u8, g1), g1, "arg") = "arg"
                    THEN Through(u8', g2, "arg") ELSE "garbage"
    <3>1. /\ call.pc = "args" /\ HasRoom /\ UNCHANGED <<stack, structs, strays>>
          /\ block' = [block EXCEPT ![FreeBlock] = x]
          /\ u8' = Current(Current(u8, g1), g2)
      BY <1>4 DEF PassString
    <3>2. x = "arg"
      BY <3>1, ViewsCurrent
    <3> HIDE DEF x
    <3>3. QED BY <3>1, <3>2
  <2>2. Becomes(call', call.pc, Append(call.ptrs, FreeBlock), call.out, call.value)
    BY <1>4, CallSteps
  <2>3. QED BY <2>1, <2>2, BlockPass
<1>5. CASE RefuseArg \/ EnterNull \/ Trap
  BY <1>5, BlockLost
<1>6. CASE Enter
  BY <1>6, BlockEnter
<1>7. ASSUME NEW f \in Imports, CallImport(f)
      PROVE  ShapeOK' /\ BlockInv'
  <2>1. UNCHANGED <<block, call, stack, structs, strays>>
    BY <1>7 DEF CallImport
  <2>2. QED BY <2>1, BlockSame
<1>8. CASE TakeConstant
  BY <1>8, BlockSame DEF TakeConstant, memory
<1>9. CASE (\E g \in Grown : Return(g)) \/ ReturnErr
  BY <1>9, BlockReturn
<1>10. CASE TakeBytes
  BY <1>10, BlockTakeBytes
<1>11. CASE TakeString \/ TakeNumber \/ Throw
  BY <1>11, BlockTake
<1>12. CASE Finally
  BY <1>12, BlockFinally
<1>13. ASSUME NEW o \in Objects, Wrap(o)
       PROVE  ShapeOK' /\ BlockInv'
  BY <1>13, BlockWrap
<1>14. ASSUME NEW o \in Objects, FreeWrapper(o) \/ Collect(o)
       PROVE  ShapeOK' /\ BlockInv'
  BY <1>14, BlockFree
<1>16. ASSUME NEW o \in Objects, FreeAgain(o)
       PROVE  ShapeOK' /\ BlockInv'
  BY <1>16, BlockFreeAgain
<1>15. QED
  BY <1>1, <1>2, <1>3, <1>4, <1>5, <1>6, <1>7, <1>8, <1>9, <1>10, <1>11, <1>12, <1>13, <1>14, <1>16
  DEF Next, Function, MethodOf, Passing, InWasm, Taking

-----------------------------------------------------------------------------
(***************************************************************************)
(* The theorems.                                                           *)
(***************************************************************************)

LEMMA BridgeInit == Init => BridgeInv
<1> SUFFICES ASSUME Init PROVE BridgeInv
  OBVIOUS
<1>1. SlabInv
  <2>1. /\ heap \in Seq(Slots) /\ Len(heap) = Reserved /\ heapNext = Reserved + 1
        /\ \A i \in 1..Reserved : heap[i].kind = "constant"
        /\ Reserved \in Nat /\ DOMAIN heap = 1..Reserved
    <3>1. Slot("constant", 0) \in Slots /\ Slot("constant", 0).kind = "constant"
      BY DEF Slot, Slots
    <3>2. Reserved \in Nat /\ heap = [i \in 1..Reserved |-> Slot("constant", 0)]
          /\ heapNext = Reserved + 1
      BY BridgeAssumption DEF Init
    <3>3. heap \in Seq(Slots) /\ Len(heap) = Reserved
      BY <3>1, <3>2
    <3>4. QED BY <3>1, <3>2, <3>3
  <2>2. FreeSlots(heap) = {} /\ Nexts(heap) = {}
    BY <2>1 DEF FreeSlots, Nexts
  <2>3. Linked(heap, heapNext)
    BY <2>1, <2>2 DEF Linked
  <2>4. held = {} /\ leaked = {} /\ call.pc = "idle"
    BY DEF Init, NoCall
  <2>5. QED BY <2>1, <2>3, <2>4 DEF SlabInv
<1>2. ShapeOK
  <2>1. call.fn \in Exports /\ call.pc = "idle" /\ call.ptrs = <<>> /\ call.value = "none" /\ Whole(call)
        /\ call.self = 0
    BY DEF Init, NoCall, Exports, Whole
  <2>2. QED BY <2>1, SetOfPtrs, FramesOf DEF Init, ShapeOK, Whole, Contents
<1>3. BlockInv
  <2>1. call.pc = "idle"
    BY DEF Init, NoCall
  <2>2. OwnerInv /\ PassedInv /\ ResultInv /\ AbandonedInv /\ SelfInv
    BY <2>1 DEF Init, OwnerInv, PassedInv, ResultInv, AbandonedInv, SelfInv
  <2>3. Used = {} /\ Owned = {} /\ InCall = {} /\ abandoned = {}
    BY <2>1 DEF Init, Used, Owned, InCall
  <2>4. QED BY <2>2, <2>3 DEF BlockInv, UsedInv
<1>4. QED BY <1>1, <1>2, <1>3 DEF BridgeInv

LEMMA BridgeInvariant == Spec => []BridgeInv
<1>1. BridgeInv /\ [Next]_vars => BridgeInv'
  BY SlabStep, BlockStep DEF BridgeInv
<1>2. QED BY BridgeInit, <1>1, PTL DEF Spec

\* Wasm starts on the arguments as they were passed, and what a function returns
\* or throws is what Rust left: the views of getUint8ArrayMemory0 and
\* getDataViewMemory0 are never read or written after a growth detached them.
THEOREM BytesReachRust == Spec => []BytesIntact
<1>1. BridgeInv => BytesIntact
  <2> SUFFICES ASSUME BridgeInv PROVE BytesIntact
    OBVIOUS
  <2>1. call.pc = "wasm" => \A b \in ToSet(call.ptrs) : block[b] = "arg"
    BY DEF BridgeInv, BlockInv, PassedInv
  <2>2. call.value \in {"none", "result", "error", "exception"}
    BY DEF BridgeInv, ShapeOK
  <2>3. QED BY <2>1, <2>2 DEF BytesIntact, ToSet
<1>2. QED BY BridgeInvariant, <1>1, PTL

\* Between calls everything is given back but what calls left by an exception or a
\* trap had of Rust's: the stack pointer is short of the frames of Rust that those
\* lost, the slots they held are the only ones taken on the slab, and the blocks in
\* use are the structs of the wrappers and the arguments that were abandoned.
THEOREM CallsBalance == Spec => []Balanced
<1>1. BridgeInv => Balanced
  <2> SUFFICES ASSUME BridgeInv, call.pc = "idle" PROVE Balanced
    BY DEF Balanced
  <2>1. stack = lost /\ held = {}
    BY FramesOf DEF BridgeInv, ShapeOK, SlabInv
  <2>2. Used = ({ptr[o] : o \in Objects} \ {0}) \cup abandoned
    BY DEF BridgeInv, BlockInv, UsedInv, InCall, Owned
  <2>3. {i \in DOMAIN heap : i > Reserved /\ ~Free(i)} = leaked
    BY <2>1 DEF BridgeInv, SlabInv, FreeSlots, Free
  <2>4. QED BY <2>1, <2>2, <2>3 DEF Balanced
<1>2. QED BY BridgeInvariant, <1>1, PTL

\* The free slots of the slab stay one list, with no slot on it twice and none
\* that wasm holds or a trap leaked, and the constants stay where they are: a handle that
\* takeObject has given back is never one that wasm still uses.
THEOREM SlabStaysSound == Spec => []SlabSound
<1>1. BridgeInv => SlabSound
  <2> SUFFICES ASSUME BridgeInv PROVE SlabSound
    OBVIOUS
  <2>1. Linked(heap, heapNext) /\ (held \cup leaked) \cap FreeSlots(heap) = {}
    BY DEF BridgeInv, SlabInv
  <2>2. Cardinality(Nexts(heap)) = Cardinality(FreeSlots(heap))
    BY <2>1, LinkedCounts
  <2>3. FreeSlots(heap) = {i \in DOMAIN heap : Free(i)}
        /\ Nexts(heap) = {heap[i].next : i \in FreeSlots(heap)}
    BY DEF FreeSlots, Nexts, Free
  <2>4. QED BY <2>1, <2>2, <2>3 DEF SlabSound, Linked
<1>2. QED BY BridgeInvariant, <1>1, PTL

\* What a finalizer will free is a live struct that no other wrapper has: neither
\* free() nor the collector frees one twice, whichever comes first.
THEOREM StructsHaveOneOwner == Spec => []OneOwner
<1>1. BridgeInv => OneOwner
  BY DEF BridgeInv, BlockInv, OwnerInv, OneOwner
<1>2. QED BY BridgeInvariant, <1>1, PTL

=============================================================================
