---------------------------- MODULE CryptoBridge ----------------------------
(***************************************************************************)
(* The glue between JavaScript and the WebAssembly crypto core             *)
(* (src/pkg/node/core_crypto.js; src/pkg/bundler/core_crypto_bg.js is the  *)
(* same code behind an ES module): how each exported function passes its   *)
(* arguments into wasm memory, takes the result out of it and puts the     *)
(* stack pointer back, the slab of JavaScript values that wasm holds       *)
(* handles to, and the wrappers of Rust objects with their finalizers.     *)
(*                                                                         *)
(* Memory is a set of blocks; growing it replaces the buffer and detaches  *)
(* every view of the old one, which the buffer's generation stands for.    *)
(* What Rust computes is external: it takes its arguments, may call        *)
(* imports, and returns a result or an error, or traps.  A trap, or an     *)
(* exception that JavaScript throws through wasm, unwinds Rust without     *)
(* running any of it: its stack frames, its handles and the arguments      *)
(* passed to it are never given back, and a struct it had borrowed stays   *)
(* borrowed.  The finally clauses give back only what JavaScript took.     *)
(***************************************************************************)
EXTENDS Naturals, Sequences, FiniteSets

CONSTANTS
    Objects,     \* wrappers of Rust structs
    NBlocks,     \* bound on blocks allocated at a time
    MaxGrowth,   \* bound on the times the memory grows
    Reserved,    \* slots of the slab that are never freed (1028 in the code)
    MaxHandles,  \* bound on the values on the slab at a time
    MaxLost      \* bound on the frames that Rust loses

ASSUME BridgeAssumption ==
    /\ NBlocks \in Nat /\ MaxGrowth \in Nat /\ MaxHandles \in Nat /\ MaxLost \in Nat
    /\ Reserved \in Nat \ {0}

Blocks == 1..NBlocks

VARIABLES
    block,      \* block[b]: what a block of wasm memory holds, or "free"
    buffer,     \* generation of wasm.memory.buffer, from 1
    u8, dv,     \* generation the cached Uint8Array and DataView are of, 0: none yet
    stack,      \* __stack_pointer: how many frames JavaScript and Rust have taken
    heap,       \* the slab: values, and free slots naming the next one
    heapNext,   \* heap_next
    held,       \* handles wasm holds
    wrappers,   \* wrappers that exist
    ptr,        \* ptr[o]: __wbg_ptr of a wrapper, 0 after free()
    registered, \* registered[o]: what the FinalizationRegistry will free, or 0
    call,       \* the exported function under way
    lost,       \* frames of Rust that a call left by an exception or a trap took
    leaked,     \* slots of the slab that such a call held
    abandoned   \* blocks that it had been passed, or had borrowed

memory == <<block, buffer, u8, dv>>
slab   == <<heap, heapNext, held>>
structs == <<wrappers, ptr, registered>>
strays == <<lost, leaked, abandoned>>
vars == <<memory, stack, slab, structs, call, strays>>

-----------------------------------------------------------------------------
\* The exported functions: types of the arguments, type of the result, whether
\* the result is a Result, whether it is a method of a wrapper.

Fn(args, ret, fails) == [args |-> args, ret |-> ret, fails |-> fails, method |-> FALSE]
Method(args, ret)    == [args |-> args, ret |-> ret, fails |-> FALSE, method |-> TRUE]

nen_decapsulate              == Fn(<<"bytes", "bytes">>, "bytes", TRUE)
nen_decrypt                  == Fn(<<"bytes", "bytes", "bytes">>, "bytes", TRUE)
nen_derive_enc_key           == Fn(<<"bytes">>, "bytes", TRUE)
nen_derive_mac_key           == Fn(<<"bytes">>, "bytes", TRUE)
nen_encapsulate              == Fn(<<"bytes">>, "object", TRUE)
nen_encrypt                  == Fn(<<"bytes", "bytes", "bytes">>, "bytes", TRUE)
nen_from_base64              == Fn(<<"string">>, "bytes", TRUE)
nen_generate_keypair         == Fn(<<>>, "object", FALSE)
nen_generate_nonce           == Fn(<<>>, "bytes", FALSE)
nen_generate_signing_keypair == Fn(<<>>, "object", TRUE)
nen_hkdf                     == Fn(<<"bytes", "string">>, "bytes", TRUE)
nen_hmac_sign                == Fn(<<"bytes", "bytes">>, "bytes", TRUE)
nen_hmac_verify              == Fn(<<"bytes", "bytes", "bytes">>, "bool", FALSE)
nen_hybrid_combine           == Fn(<<"bytes", "bytes">>, "bytes", TRUE)
nen_ratchet_key              == Fn(<<"bytes">>, "bytes", TRUE)
nen_sign                     == Fn(<<"bytes", "bytes">>, "bytes", TRUE)
nen_to_base64                == Fn(<<"bytes">>, "string", FALSE)
nen_transcript_hash          == Fn(<<"bytes", "bytes", "bytes", "bytes">>, "bytes", FALSE)
nen_verify_signature         == Fn(<<"bytes", "bytes", "bytes">>, "bool", FALSE)
nen_x25519_dh                == Fn(<<"bytes", "bytes">>, "bytes", TRUE)
nen_x25519_keypair           == Fn(<<>>, "object", FALSE)

\* Getters return a copy of the field, setters pass a new value for it.
Getter == Method(<<>>, "bytes")
Setter == Method(<<"bytes">>, "none")
NenEncapsulation  == {Getter}
NenKeypair        == {Getter}
NenSigningKeypair == {Getter, Setter}
NenX25519Keypair  == {Getter, Setter}

Exports ==
    {nen_decapsulate, nen_decrypt, nen_derive_enc_key, nen_derive_mac_key,
     nen_encapsulate, nen_encrypt, nen_from_base64, nen_generate_keypair,
     nen_generate_nonce, nen_generate_signing_keypair, nen_hkdf, nen_hmac_sign,
     nen_hmac_verify, nen_hybrid_combine, nen_ratchet_key, nen_sign, nen_to_base64,
     nen_transcript_hash, nen_verify_signature, nen_x25519_dh, nen_x25519_keypair}
    \cup NenEncapsulation \cup NenKeypair \cup NenSigningKeypair \cup NenX25519Keypair

\* The imports Rust calls: whether it passes handles and keeps them, whether it
\* gives one away, what comes back (a handle, or a number or nothing), and whether
\* handleError catches what is thrown.

Import(reads, gives, throws) == [reads |-> reads, takes |-> FALSE, gives |-> gives, throws |-> throws]

Test     == Import(TRUE, {"number"}, FALSE)    \* is_function, is_object, length, set ...
Property == Import(TRUE, {"value"}, FALSE)     \* crypto, process, versions, subarray, clone ...
Made     == Import(FALSE, {"value"}, FALSE)    \* new_with_length and the casts
Global   == Import(FALSE, {"value", "number"}, FALSE)   \* self, window, or 0 for none
Require  == Import(FALSE, {"value"}, TRUE)
Call     == Import(TRUE, {"value"}, TRUE)
GetRandomValues == {Import(FALSE, {"number"}, TRUE), Import(TRUE, {"number"}, TRUE)}
RandomFillSync  == [Import(TRUE, {"number"}, TRUE) EXCEPT !.takes = TRUE]
DropRef         == [Import(FALSE, {"number"}, FALSE) EXCEPT !.takes = TRUE]

Imports == {Test, Property, Made, Global, Require, Call, RandomFillSync, DropRef} \cup GetRandomValues

\* A function takes a stack frame when its result comes back through memory.
TakesFrame(f) == f.ret \in {"bytes", "string"} \/ (f.ret = "object" /\ f.fails)

-----------------------------------------------------------------------------
\* Wasm memory.

\* The allocator may have to grow the memory first.
Grown == {g \in buffer..(buffer + 1) : g <= MaxGrowth + 1}

\* Which free block it hands out is its own affair.
FreeBlock == CHOOSE b \in Blocks : block[b] = "free"
HasRoom == \E b \in Blocks : block[b] = "free"

\* Mutated form of Current: a cached view is used without the detached test.
Cached(view, g) == IF view = 0 THEN g ELSE view

\* getUint8ArrayMemory0 and getDataViewMemory0: a view of the buffer's generation.
Current(view, g) == IF view = g THEN view ELSE g

\* What a write of v through a view leaves, what a read through a view finds.
Through(view, g, v) == IF view = g THEN v ELSE "garbage"

-----------------------------------------------------------------------------
\* The slab.

Slot(kind, next) == [kind |-> kind, next |-> next]
Free(i) == heap[i].kind = "free"

Slab == [heap |-> heap, next |-> heapNext]
SlabBecomes(s) == heap' = s.heap /\ heapNext' = s.next

\* addHeapObject: the object goes to s.next.
AddHeapObject(s, kind) ==
    LET grown == IF s.next = Len(s.heap) + 1
                 THEN Append(s.heap, Slot("free", Len(s.heap) + 2)) ELSE s.heap
    IN [heap |-> [grown EXCEPT ![s.next] = Slot(kind, 0)], next |-> grown[s.next].next]

\* Mutated form of Droppable: the reserved slots are not excepted.
DroppableAll(i) == TRUE

Droppable(i) == i > Reserved

DropObject(s, i) ==
    IF Droppable(i) THEN [heap |-> [s.heap EXCEPT ![i] = Slot("free", s.next)], next |-> i] ELSE s

-----------------------------------------------------------------------------
\* One exported function, from its call to its return.

ToSet(s) == {s[i] : i \in DOMAIN s}

NoCall == [pc |-> "idle", fn |-> nen_generate_nonce, self |-> 0, ptrs |-> <<>>,
           out |-> 0, value |-> "none"]

Begin(f, p) ==
    /\ call.pc = "idle"
    /\ call' = [NoCall EXCEPT !.pc = "args", !.fn = f, !.self = p]
    /\ stack' = IF TakesFrame(f) THEN stack + 1 ELSE stack
    /\ UNCHANGED <<memory, slab, structs, strays>>

\* Bound: there is a name left for a wrapper that f returns.
Function(f) == ~f.method /\ (f.ret = "object" => wrappers # Objects) /\ Begin(f, 0)
MethodOf(f, o) == f.method /\ o \in wrappers /\ Begin(f, ptr[o])

\* The type of the argument to pass next, "none" when all are passed.
NextArg == IF Len(call.ptrs) < Len(call.fn.args)
           THEN call.fn.args[Len(call.ptrs) + 1] ELSE "none"

\* passArray8ToWasm0, and passStringToWasm0 for a string of ASCII only: allocate,
\* then fetch the view and write.
PassBytes(g) ==
    /\ call.pc = "args" /\ NextArg \in {"bytes", "string"} /\ HasRoom
    /\ buffer' = g /\ u8' = Current(u8, g)
    /\ block' = [block EXCEPT ![FreeBlock] = Through(Current(u8, g), g, "arg")]
    /\ call' = [call EXCEPT !.ptrs = Append(@, FreeBlock)]
    /\ UNCHANGED <<dv, stack, slab, structs, strays>>

\* passStringToWasm0 for a string that is not: the prefix is written before, the
\* rest after the first reallocation, and a second one gives the excess back.
PassString(g1, g2, g3) ==
    /\ call.pc = "args" /\ NextArg = "string" /\ HasRoom
    /\ buffer' = g3 /\ u8' = Current(Current(u8, g1), g2)
    /\ block' = [block EXCEPT ![FreeBlock] =
                    IF Through(Current(u8, g1), g1, "arg") = "arg"
                    THEN Through(u8', g2, "arg") ELSE "garbage"]
    /\ call' = [call EXCEPT !.ptrs = Append(@, FreeBlock)]
    /\ UNCHANGED <<dv, stack, slab, structs, strays>>

\* The call is left by an exception: its blocks, and those in also, are nobody's.
Abandon(also) ==
    /\ call' = [call EXCEPT !.pc = "finally", !.value = "exception"]
    /\ abandoned' = abandoned \cup ToSet(call.ptrs) \cup also

\* An argument that is not of its type throws before anything is allocated for
\* it; what was passed before stays allocated.
RefuseArg ==
    /\ call.pc = "args" /\ NextArg # "none"
    /\ Abandon({})
    /\ UNCHANGED <<memory, stack, slab, structs, lost, leaked>>

\* The frame that Rust takes, on top of the one for the result.
Enter ==
    /\ call.pc = "args" /\ NextArg = "none"
    /\ ~(call.fn.method /\ call.self = 0)
    /\ call' = [call EXCEPT !.pc = "wasm"]
    /\ stack' = stack + 1
    /\ UNCHANGED <<memory, slab, structs, strays>>

\* "null pointer passed to rust" or "recursive use of an object" is thrown through
\* wasm, before Rust has taken its frame or after.
ThrowThrough(k) ==
    /\ lost + k <= MaxLost
    /\ stack' = stack + k /\ lost' = lost + k

\* A method of a wrapper that was freed, or of one whose struct a trap left
\* borrowed (which not every method minds).
EnterNull == \E k \in 0..1 :
    /\ call.pc = "args" /\ NextArg = "none" /\ call.fn.method
    /\ call.self \in {0} \cup abandoned
    /\ ThrowThrough(k) /\ Abandon({})
    /\ UNCHANGED <<memory, slab, structs, leaked>>

\* Bound: the slab takes MaxHandles values.
HasSlot(s) == s.next <= Reserved + MaxHandles

\* Rust calls an import, with handles it holds; one may be given away with the
\* call.  What the import throws, handleError puts on the slab.  Some read bytes
\* through the cached view.
CallImport(f) == \E d \in IF f.takes THEN held ELSE {0},
                    kind \in f.gives \cup (IF f.throws THEN {"error"} ELSE {}) :
    LET left == IF f.takes THEN DropObject(Slab, d) ELSE Slab IN
    /\ call.pc = "wasm" /\ (f.reads => held # {})
    /\ IF kind = "number"
       THEN SlabBecomes(left) /\ held' = held \ {d}
       ELSE /\ HasSlot(left) /\ SlabBecomes(AddHeapObject(left, kind))
            /\ held' = (held \ {d}) \cup {left.next}
    /\ u8' \in {u8, Current(u8, buffer)}
    /\ UNCHANGED <<block, buffer, dv, stack, structs, call, strays>>

\* Rust uses a constant such as undefined, which has a handle from the start.
TakeConstant ==
    /\ call.pc = "wasm" /\ 1 \notin held
    /\ held' = held \cup {1}
    /\ UNCHANGED <<memory, stack, heap, heapNext, structs, call, strays>>

\* The blocks after Rust has dropped its arguments and left r in block b.
Returned(b, r) == [a \in Blocks |-> IF a = b THEN r
                                    ELSE IF a \in ToSet(call.ptrs) THEN "free" ELSE block[a]]

\* Rust returns: its frame is given back, its handles and arguments are dropped, a
\* result that does not fit a register is in a block of its own.
Return(g) ==
    /\ call.pc = "wasm" /\ held = {}
    /\ IF call.fn.ret \in {"bool", "none"}
       THEN /\ g = buffer
            /\ block' = Returned(0, "free")
            /\ call' = [call EXCEPT !.pc = "back", !.ptrs = <<>>]
       ELSE /\ HasRoom
            /\ block' = Returned(FreeBlock, IF call.fn.ret = "object" THEN "object" ELSE "result")
            /\ call' = [call EXCEPT !.pc = "back", !.ptrs = <<>>, !.out = FreeBlock]
    /\ buffer' = g /\ stack' = stack - 1
    /\ UNCHANGED <<u8, dv, slab, structs, strays>>

\* Rust returns an error: its message is put on the slab for JavaScript.
ReturnErr ==
    /\ call.pc = "wasm" /\ call.fn.fails /\ held = {} /\ HasSlot(Slab)
    /\ SlabBecomes(AddHeapObject(Slab, "error")) /\ held' = {heapNext}
    /\ block' = Returned(0, "free")
    /\ call' = [call EXCEPT !.pc = "error", !.ptrs = <<>>, !.out = heapNext]
    /\ stack' = stack - 1
    /\ UNCHANGED <<buffer, u8, dv, structs, strays>>

\* A panic (no randomness, no memory): nothing of this call is dropped.  Its slots
\* of the slab stay taken, with nobody left to give them back.
Trap ==
    /\ call.pc = "wasm" /\ lost < MaxLost
    /\ Abandon({call.self} \ {0})
    /\ lost' = lost + 1
    /\ leaked' = leaked \cup {i \in held : i > Reserved} /\ held' = {}
    /\ UNCHANGED <<memory, stack, heap, heapNext, structs>>

\* The result read through both views: r0 and r1 by the DataView, then the block.
Read == IF Current(dv, buffer) = buffer
        THEN Through(Current(u8, buffer), buffer, block[call.out]) ELSE "garbage"

\* slice() copies the bytes out, then the block is freed.
TakeBytes ==
    /\ call.pc = "back" /\ call.fn.ret = "bytes"
    /\ dv' = Current(dv, buffer) /\ u8' = Current(u8, buffer)
    /\ call' = [call EXCEPT !.pc = "finally", !.value = Read]
    /\ block' = [block EXCEPT ![call.out] = "free"]
    /\ UNCHANGED <<buffer, stack, slab, structs, strays>>

\* A string is decoded here and its block freed in the finally clause.
TakeString ==
    /\ call.pc = "back" /\ call.fn.ret = "string"
    /\ dv' = Current(dv, buffer) /\ u8' = Current(u8, buffer)
    /\ call' = [call EXCEPT !.pc = "finally", !.value = Read]
    /\ UNCHANGED <<block, buffer, stack, slab, structs, strays>>

\* __wrap
Wrap(o) ==
    /\ call.pc = "back" /\ call.fn.ret = "object" /\ o \notin wrappers
    /\ wrappers' = wrappers \cup {o}
    /\ ptr' = [ptr EXCEPT ![o] = call.out]
    /\ registered' = [registered EXCEPT ![o] = call.out]
    /\ dv' = IF call.fn.fails THEN Current(dv, buffer) ELSE dv
    /\ call' = [call EXCEPT !.pc = "finally", !.value = "result"]
    /\ UNCHANGED <<block, buffer, u8, stack, slab, strays>>

TakeNumber ==
    /\ call.pc = "back" /\ call.fn.ret \in {"bool", "none"}
    /\ call' = [call EXCEPT !.pc = "finally", !.value = "result"]
    /\ UNCHANGED <<memory, stack, slab, structs, strays>>

\* Mutated form of Throw: getObject in the place of takeObject.
ThrowKept ==
    /\ call.pc = "error"
    /\ dv' = Current(dv, buffer)
    /\ call' = [call EXCEPT !.pc = "finally", !.value = heap[call.out].kind]
    /\ UNCHANGED <<block, buffer, u8, stack, slab, structs, strays>>

\* throw takeObject(r)
Throw ==
    /\ call.pc = "error"
    /\ dv' = Current(dv, buffer)
    /\ call' = [call EXCEPT !.pc = "finally", !.value = heap[call.out].kind]
    /\ SlabBecomes(DropObject(Slab, call.out)) /\ held' = {}
    /\ UNCHANGED <<block, buffer, u8, stack, structs, strays>>

Finally ==
    /\ call.pc = "finally"
    /\ stack' = IF TakesFrame(call.fn) THEN stack - 1 ELSE stack
    /\ block' = IF call.fn.ret = "string" /\ call.out # 0
                THEN [block EXCEPT ![call.out] = "free"] ELSE block
    /\ call' = [NoCall EXCEPT !.value = call.value]
    /\ UNCHANGED <<buffer, u8, dv, slab, structs, strays>>

-----------------------------------------------------------------------------
\* Wrappers, between calls.

\* Rust frees struct p, unless a trap left it borrowed.
Freed(p) == IF p \in Blocks \ abandoned THEN [block EXCEPT ![p] = "free"] ELSE block

\* Mutated form of FreeWrapper: the finalizer is not unregistered.
FreeRegistered(o) ==
    /\ call.pc = "idle" /\ o \in wrappers /\ ptr[o] # 0
    /\ block' = Freed(ptr[o])
    /\ ptr' = [ptr EXCEPT ![o] = 0]
    /\ UNCHANGED <<buffer, u8, dv, stack, slab, wrappers, registered, call, strays>>

\* free()
FreeWrapper(o) ==
    /\ call.pc = "idle" /\ o \in wrappers /\ ptr[o] # 0
    /\ block' = Freed(ptr[o])
    /\ ptr' = [ptr EXCEPT ![o] = 0]
    /\ registered' = [registered EXCEPT ![o] = 0]
    /\ UNCHANGED <<buffer, u8, dv, stack, slab, wrappers, call, strays>>

\* free() when it has been called before, which wasm throws for.
FreeAgain(o) == \E k \in 0..1 :
    /\ call.pc = "idle" /\ o \in wrappers /\ ptr[o] = 0
    /\ ThrowThrough(k)
    /\ UNCHANGED <<memory, slab, structs, call, leaked, abandoned>>

\* The wrapper is collected: its finalizer runs if it is still registered.
Collect(o) ==
    /\ call.pc = "idle" /\ o \in wrappers
    /\ block' = Freed(registered[o])
    /\ wrappers' = wrappers \ {o}
    /\ ptr' = [ptr EXCEPT ![o] = 0]
    /\ registered' = [registered EXCEPT ![o] = 0]
    /\ UNCHANGED <<buffer, u8, dv, stack, slab, call, strays>>

-----------------------------------------------------------------------------
Init ==
    /\ block = [b \in Blocks |-> "free"]
    /\ buffer = 1 /\ u8 = 0 /\ dv = 0
    /\ stack = 0
    /\ heap = [i \in 1..Reserved |-> Slot("constant", 0)]
    /\ heapNext = Reserved + 1
    /\ held = {}
    /\ wrappers = {}
    /\ ptr = [o \in Objects |-> 0]
    /\ registered = [o \in Objects |-> 0]
    /\ call = NoCall
    /\ lost = 0 /\ leaked = {} /\ abandoned = {}

Passing == \/ \E g \in Grown : PassBytes(g)
           \/ \E g1, g2, g3 \in Grown : g1 <= g2 /\ g2 <= g3 /\ PassString(g1, g2, g3)
           \/ RefuseArg
InWasm  == \/ Enter \/ EnterNull
           \/ \E f \in Imports : CallImport(f)
           \/ TakeConstant
           \/ \E g \in Grown : Return(g)
           \/ ReturnErr \/ Trap
Taking  == \/ TakeBytes \/ TakeString \/ TakeNumber \/ Throw \/ Finally
           \/ \E o \in Objects : Wrap(o)

Next ==
    \/ \E f \in Exports : Function(f)
    \/ \E f \in Exports, o \in Objects : MethodOf(f, o)
    \/ Passing \/ InWasm \/ Taking
    \/ \E o \in Objects : FreeWrapper(o) \/ FreeAgain(o) \/ Collect(o)

Spec == Init /\ [][Next]_vars

-----------------------------------------------------------------------------
\* Properties.

\* Wasm never starts on an argument that was written through a view of a buffer
\* that a growth of the memory had replaced; and what a function returns or throws
\* is what Rust left: never the bytes of a freed block, a read through a detached
\* view, or another value of the slab.
BytesIntact ==
    /\ call.pc = "wasm" => \A i \in DOMAIN call.ptrs : block[call.ptrs[i]] = "arg"
    /\ call.value \in {"none", "result", "error", "exception"}

Used == {b \in Blocks : block[b] # "free"}

\* Between calls everything is given back but what a call left by an exception or a
\* trap had of Rust's: the stack pointer is short of Rust's own frames only, those
\* slots alone stay taken on the slab, and the blocks in use are those of the
\* wrappers that are not freed and the arguments that were abandoned.  One such call
\* costs the calls after it nothing more: they still return what they take.
Balanced ==
    call.pc = "idle" =>
        /\ stack = lost /\ held = {}
        /\ {i \in DOMAIN heap : i > Reserved /\ ~Free(i)} = leaked
        /\ Used = ({ptr[o] : o \in Objects} \ {0}) \cup abandoned

\* The free slots are linked into one list that ends past the slab, with no slot on
\* it twice and none that wasm holds, now or since a trap; the constants are where
\* they were.
SlabSound ==
    LET free == {i \in DOMAIN heap : Free(i)}
        next == {heap[i].next : i \in free}
    IN /\ next \cup {heapNext} = free \cup {Len(heap) + 1}
       /\ Cardinality(next) = Cardinality(free) /\ heapNext \notin next
       /\ (held \cup leaked) \cap free = {}
       /\ \A i \in 1..Reserved : heap[i].kind = "constant"

\* What a finalizer will free is the block of a live struct that no other wrapper
\* has; a wrapper's pointer is that block or null.
OneOwner ==
    \A o \in Objects :
        /\ registered[o] # 0 => block[registered[o]] = "object" /\ ptr[o] = registered[o]
        /\ ptr[o] # 0 => registered[o] = ptr[o]
        /\ \A p \in Objects \ {o} : registered[o] # 0 => registered[p] # registered[o]
=============================================================================
