----------------------------- MODULE KeyboardProofs -----------------------------
(***************************************************************************)
(* The key buffer is a first-in first-out queue for its readers, for every *)
(* capacity, key map, number of processes and behaviour of the user: the   *)
(* ring of keyboard.c implements ByteChannel.  And as long as no reader    *)
(* was killed with its token, whoever sleeps on the semaphore of the keys  *)
(* finds the buffer empty (KeysHaveTokens).                                *)
(***************************************************************************)
EXTENDS KeyReaders, KernelProofs

DriverInv == kb \in Driver

\* The state of all four parts, as the operations take it.
Of(kernel, semaphores, driver, key) ==
    [k |-> kernel, sems |-> semaphores, kb |-> driver, taken |-> key]

\* Semaphores do not touch the buffer.
LEMMA SemPostKeepsBuffer ==
    ASSUME NEW a, NEW b, NEW d, NEW t, NEW id
    PROVE  /\ SemPost(Of(a, b, d, t), id).kb = d
           /\ SemPost(Of(a, b, d, t), id).taken = t
BY DEF SemPost, Of

LEMMA SemWaitKeepsBuffer ==
    ASSUME NEW a, NEW b, NEW d, NEW t, NEW id
    PROVE  \E x, y : SemWait(Of(a, b, d, t), id) = Of(x, y, d, t)
<1>. DEFINE o == Of(a, b, d, t)
<1>1. CASE b[id].counter > 0
  <2>1. SemWait(o, id) = Of(a, [b EXCEPT ![id].counter = @ - 1], d, t)
    BY <1>1 DEF SemWait, Of
  <2>. QED
    BY <2>1
<1>2. CASE ~ (b[id].counter > 0)
  <2>1. SemWait(o, id) = Of(BlockProcess(a, a.currentPid),
                            [b EXCEPT ![id] = Enqueue(@, a.currentPid)], d, t)
    BY <1>2 DEF SemWait, Of
  <2>. QED
    BY <2>1
<1>. QED
  BY <1>1, <1>2

-----------------------------------------------------------------------------
(***************************************************************************)
(* The ring: d is the state of the driver, KeysIn(d) what it holds.        *)
(***************************************************************************)

Slot(d, n) == (d.start + n - 1) % BUFFER_CAPACITY

KeysIn(d) == [n \in 1 .. d.size |-> d.buffer[Slot(d, n)]]

LEMMA DriverFields ==
    ASSUME NEW d \in Driver
    PROVE  /\ BUFFER_CAPACITY \in Nat \ {0}
           /\ d.start \in 0 .. BUFFER_CAPACITY - 1 /\ d.size \in 0 .. BUFFER_CAPACITY - 1
           /\ d.buffer \in [KeyIndex -> Keys]
BY KeyboardAssumption DEF Driver, KeyIndex

LEMMA SlotProperty ==
    ASSUME NEW d \in Driver, NEW n \in 1 .. BUFFER_CAPACITY
    PROVE  /\ Slot(d, n) \in KeyIndex
           /\ Slot(d, n) = IF d.start + n - 1 < BUFFER_CAPACITY
                          THEN d.start + n - 1 ELSE d.start + n - 1 - BUFFER_CAPACITY
<1>. DEFINE s == d.start
            c == BUFFER_CAPACITY
<1>0. s \in 0 .. c - 1 /\ c \in Nat \ {0} /\ n \in 1 .. c
  BY DriverFields
<1>. HIDE DEF s, c
<1>1. s + n - 1 \in 0 .. 2 * c - 1
  BY <1>0
<1>3. (s + n - 1) % c = IF s + n - 1 < c THEN s + n - 1 ELSE s + n - 1 - c
  <2>1. \A m \in 0 .. 2 * c - 1 : m % c = IF m < c THEN m ELSE m - c
    BY <1>0, RingIndex
  <2>. QED
    BY <1>0, <1>1, <2>1
<1>4. (s + n - 1) % c \in 0 .. c - 1
  BY <1>0, <1>1
<1>. USE DEF s, c
<1>2. Slot(d, n) = IF d.start + n - 1 < BUFFER_CAPACITY
                   THEN d.start + n - 1 ELSE d.start + n - 1 - BUFFER_CAPACITY
  BY <1>3 DEF Slot
<1>. QED
  BY <1>2, <1>4 DEF Slot, KeyIndex

LEMMA KeysInProperty ==
    ASSUME NEW d \in Driver
    PROVE  /\ KeysIn(d) \in Seq(Keys) /\ Len(KeysIn(d)) = d.size /\ d.size \in Nat
           /\ \A n \in 1 .. d.size : KeysIn(d)[n] = d.buffer[Slot(d, n)]
<1>1. d.size \in Nat /\ \A n \in 1 .. d.size : n \in 1 .. BUFFER_CAPACITY
  BY DriverFields
<1>2. \A n \in 1 .. d.size : d.buffer[Slot(d, n)] \in Keys
  BY <1>1, DriverFields, SlotProperty
<1>3. KeysIn(d) = [n \in 1 .. d.size |-> d.buffer[Slot(d, n)]]
  BY DEF KeysIn
<1>. HIDE DEF KeysIn
<1>. QED
  BY <1>1, <1>2, <1>3

\* A key goes in at the end.
LEMMA PutKey ==
    ASSUME NEW d \in Driver, d.size < BUFFER_CAPACITY - 1, NEW key \in Keys, NEW e,
           e = [d EXCEPT !.buffer[BufferIndex(d, d.size)] = key, !.size = @ + 1]
    PROVE  e \in Driver /\ KeysIn(e) = Append(KeysIn(d), key)
<1>. DEFINE at == Slot(d, d.size + 1)
            n  == d.size
<1>1. /\ n \in Nat /\ BUFFER_CAPACITY \in Nat \ {0} /\ n + 1 <= BUFFER_CAPACITY - 1
      /\ d.start \in Int
  BY DriverFields
<1>2. at = BufferIndex(d, d.size) /\ at \in KeyIndex
  <2>. DEFINE s == d.start
  <2>0. s \in Int
    BY <1>1
  <2>. HIDE DEF s, n
  <2>1. s + (n + 1) - 1 = s + n /\ n + 1 \in 1 .. BUFFER_CAPACITY
    BY <1>1, <2>0
  <2>. USE DEF s, n
  <2>. QED
    BY <2>1, SlotProperty DEF Slot, BufferIndex
<1>. HIDE DEF at
<1>3. /\ e \in Driver /\ e.size = n + 1 /\ e.start = d.start
      /\ e.buffer = [d.buffer EXCEPT ![at] = key]
  <2>1. e = [d EXCEPT !.buffer = [d.buffer EXCEPT ![at] = key], !.size = n + 1]
    <3>1. e = [d EXCEPT !.buffer = [d.buffer EXCEPT ![BufferIndex(d, d.size)] = key],
                        !.size = d.size + 1]
      BY DEF Driver
    <3>. QED
      BY <1>2, <3>1
  <2>2. [d.buffer EXCEPT ![at] = key] \in [KeyIndex -> Keys] /\ n + 1 \in KeyIndex
    BY <1>1, <1>2, DriverFields DEF KeyIndex
  <2>. QED
    BY <2>1, <2>2 DEF Driver
<1>4. /\ KeysIn(e) \in Seq(Keys) /\ Len(KeysIn(e)) = n + 1
      /\ \A i \in 1 .. n + 1 : KeysIn(e)[i] = e.buffer[Slot(d, i)]
  BY <1>3, KeysInProperty, ZenonT(60) DEF Slot
<1>5. /\ KeysIn(d) \in Seq(Keys) /\ Len(KeysIn(d)) = n
      /\ \A i \in 1 .. n : KeysIn(d)[i] = d.buffer[Slot(d, i)]
  BY KeysInProperty
<1>6. ASSUME NEW i \in 1 .. n PROVE KeysIn(e)[i] = KeysIn(d)[i]
  <2>1. Slot(d, i) # at /\ Slot(d, i) \in KeyIndex
    <3>1. /\ i \in 1 .. BUFFER_CAPACITY /\ n + 1 \in 1 .. BUFFER_CAPACITY
      BY <1>1
    <3>2. /\ Slot(d, i) = IF d.start + i - 1 < BUFFER_CAPACITY
                         THEN d.start + i - 1 ELSE d.start + i - 1 - BUFFER_CAPACITY
          /\ at = IF d.start + (n + 1) - 1 < BUFFER_CAPACITY
                  THEN d.start + (n + 1) - 1 ELSE d.start + (n + 1) - 1 - BUFFER_CAPACITY
          /\ Slot(d, i) \in KeyIndex
      BY <3>1, SlotProperty DEF at
    <3>. QED
      BY <1>1, <3>2
  <2>. QED
    BY <1>1, <1>3, <1>4, <1>5, <2>1, DriverFields
<1>7. KeysIn(e)[n + 1] = key
  <2>1. n + 1 \in 1 .. n + 1
    BY <1>1
  <2>2. KeysIn(e)[n + 1] = e.buffer[at]
    BY <1>4, <2>1 DEF at
  <2>3. e.buffer[at] = key
    BY <1>2, <1>3, DriverFields
  <2>. QED
    BY <2>2, <2>3
<1>. DEFINE A == Append(KeysIn(d), key)
<1>8. /\ A \in Seq(Keys) /\ Len(A) = n + 1 /\ A[n + 1] = key
      /\ \A i \in 1 .. n : A[i] = KeysIn(d)[i]
  BY <1>1, <1>5
<1>. HIDE DEF A, KeysIn
<1>9. ASSUME NEW i \in 1 .. n + 1 PROVE KeysIn(e)[i] = A[i]
  <2>1. i \in 1 .. n \/ i = n + 1
    BY <1>1
  <2>2. CASE i \in 1 .. n
    BY <1>6, <1>8, <2>2
  <2>3. CASE i = n + 1
    BY <1>7, <1>8, <2>3
  <2>. QED
    BY <2>1, <2>2, <2>3
<1>10. KeysIn(e) = A
  BY <1>4, <1>8, <1>9, SeqEqual
<1>. QED
  BY <1>3, <1>10 DEF A

\* A key goes out at the front.
LEMMA GetKey ==
    ASSUME NEW d \in Driver, d.size # 0, NEW e,
           e = [d EXCEPT !.start = BufferIndex(d, 1), !.size = @ - 1]
    PROVE  /\ e \in Driver
           /\ KeysIn(d) # << >> /\ KeysIn(e) = Tail(KeysIn(d))
           /\ Head(KeysIn(d)) = d.buffer[d.start]
<1>. DEFINE n == d.size
<1>1. /\ n \in Nat \ {0} /\ BUFFER_CAPACITY \in Nat \ {0} /\ n <= BUFFER_CAPACITY - 1
      /\ d.start \in 0 .. BUFFER_CAPACITY - 1
  BY DriverFields
<1>2. BufferIndex(d, 1) \in KeyIndex /\ BufferIndex(d, 1) = Slot(d, 2)
  <2>1. 2 \in 1 .. BUFFER_CAPACITY /\ d.start + 2 - 1 = d.start + 1
    BY <1>1
  <2>. QED
    BY <2>1, SlotProperty DEF Slot, BufferIndex
<1>3. /\ e \in Driver /\ e.size = n - 1 /\ e.start = Slot(d, 2) /\ e.buffer = d.buffer
  <2>1. n - 1 \in KeyIndex
    BY <1>1 DEF KeyIndex
  <2>. QED
    BY <1>2, <2>1 DEF Driver
<1>4. /\ KeysIn(e) \in Seq(Keys) /\ Len(KeysIn(e)) = n - 1
      /\ \A i \in 1 .. n - 1 : KeysIn(e)[i] = d.buffer[Slot(e, i)]
  BY <1>3, KeysInProperty
<1>5. /\ KeysIn(d) \in Seq(Keys) /\ Len(KeysIn(d)) = n
      /\ \A i \in 1 .. n : KeysIn(d)[i] = d.buffer[Slot(d, i)]
  BY KeysInProperty
<1>6. ASSUME NEW i \in 1 .. n - 1 PROVE Slot(e, i) = Slot(d, i + 1)
  <2>1. /\ i \in 1 .. BUFFER_CAPACITY /\ i + 1 \in 1 .. BUFFER_CAPACITY /\ 2 \in 1 .. BUFFER_CAPACITY
    BY <1>1
  <2>2. /\ Slot(e, i) = IF Slot(d, 2) + i - 1 < BUFFER_CAPACITY
                       THEN Slot(d, 2) + i - 1 ELSE Slot(d, 2) + i - 1 - BUFFER_CAPACITY
        /\ Slot(d, 2) = IF d.start + 2 - 1 < BUFFER_CAPACITY
                       THEN d.start + 2 - 1 ELSE d.start + 2 - 1 - BUFFER_CAPACITY
        /\ Slot(d, i + 1) = IF d.start + (i + 1) - 1 < BUFFER_CAPACITY
                       THEN d.start + (i + 1) - 1 ELSE d.start + (i + 1) - 1 - BUFFER_CAPACITY
    BY <1>3, <2>1, SlotProperty
  <2>. QED
    BY <1>1, <2>2
<1>7. Slot(d, 1) = d.start
  BY <1>1, SlotProperty
<1>. DEFINE T == Tail(KeysIn(d))
<1>. HIDE DEF KeysIn, Slot
<1>8. /\ KeysIn(d) # << >> /\ Head(KeysIn(d)) = KeysIn(d)[1]
      /\ T \in Seq(Keys) /\ Len(T) = n - 1
      /\ \A i \in 1 .. n - 1 : T[i] = KeysIn(d)[i + 1]
  BY <1>1, <1>5
<1>. HIDE DEF T
<1>9. ASSUME NEW i \in 1 .. n - 1 PROVE KeysIn(e)[i] = T[i]
  <2>1. i + 1 \in 1 .. n
    BY <1>1
  <2>2. KeysIn(e)[i] = d.buffer[Slot(d, i + 1)]
    BY <1>4, <1>6
  <2>3. KeysIn(d)[i + 1] = d.buffer[Slot(d, i + 1)]
    BY <1>5, <2>1
  <2>. QED
    BY <1>8, <2>2, <2>3
<1>10. KeysIn(e) = T
  BY <1>4, <1>8, <1>9, SeqEqual
<1>. QED
  <2>1. 1 \in 1 .. n
    BY <1>1
  <2>2. Head(KeysIn(d)) = d.buffer[d.start]
    BY <1>5, <1>7, <1>8, <2>1
  <2>. QED
    BY <1>3, <1>8, <1>10, <2>2 DEF T

\* Ctrl+C throws away what was typed.
LEMMA DropKeys ==
    ASSUME NEW d \in Driver, NEW e, e = [d EXCEPT !.start = 0, !.size = 0]
    PROVE  e \in Driver /\ KeysIn(e) = << >>
<1>1. 0 \in KeyIndex
  BY KeyboardAssumption DEF KeyIndex
<1>2. e \in Driver /\ e.size = 0
  BY <1>1 DEF Driver
<1>3. KeysIn(e) \in Seq(Keys) /\ Len(KeysIn(e)) = 0
  BY <1>2, KeysInProperty
<1>. HIDE DEF KeysIn
<1>. QED
  BY <1>2, <1>3

\* The two variables of the driver that say which keys are down.
LEMMA ShiftKeys ==
    ASSUME NEW d \in Driver, NEW e, NEW down \in BOOLEAN,
           e = [d EXCEPT !.ctrl = down] \/ e = [d EXCEPT !.shift = down]
    PROVE  e \in Driver /\ KeysIn(e) = KeysIn(d)
<1>1. e \in Driver /\ e.start = d.start /\ e.size = d.size /\ e.buffer = d.buffer
  BY DEF Driver
<1>. QED
  BY <1>1 DEF KeysIn, Slot

-----------------------------------------------------------------------------
(***************************************************************************)
(* The handler of the keyboard interrupt.                                  *)
(***************************************************************************)

\* What it may do to the buffer, and leaves the readers.
Types(d, t, o) ==
    /\ o.kb \in Driver
    /\ o.taken = t
    /\ \/ KeysIn(o.kb) = KeysIn(d)
       \/ KeysIn(o.kb) = << >> /\ d.ctrl
       \/ \E key \in Keys : /\ Len(KeysIn(d)) < BUFFER_CAPACITY - 1
                            /\ KeysIn(o.kb) = Append(KeysIn(d), key)

Puts(d, key, e) == e = [d EXCEPT !.buffer[BufferIndex(d, d.size)] = key, !.size = @ + 1]

\* A key that stands for a character is put into the buffer and posted.
LEMMA WriteKeyForm ==
    ASSUME NEW a, NEW b, NEW d \in Driver, NEW t, NEW key
    PROVE  \/ WriteKey(Of(a, b, d, t), key) = Of(a, b, d, t)
           \/ \E e : /\ Puts(d, key, e)
                    /\ WriteKey(Of(a, b, d, t), key) = SemPost(Of(a, b, e, t), KEYBOARD_SEM_ID)
<1>. DEFINE o == Of(a, b, d, t)
            e == [d EXCEPT !.buffer[BufferIndex(d, d.size)] = key, !.size = @ + 1]
<1>1. CASE key # EOF_KEY /\ charHexMap[key % SHIFTED] = 0
  BY <1>1 DEF WriteKey
<1>2. CASE ~ (key # EOF_KEY /\ charHexMap[key % SHIFTED] = 0)
  <2>1. o.kb = d
    BY DEF Of
  <2>2. [o EXCEPT !.kb.buffer[BufferIndex(o.kb, o.kb.size)] = key, !.kb.size = @ + 1]
            = Of(a, b, e, t)
    <3>. DEFINE at   == BufferIndex(o.kb, o.kb.size)
                size == d.size + 1
                put  == [d EXCEPT !.buffer[at] = key]
    <3>0. e = [d EXCEPT !.buffer[at] = key, !.size = size] /\ o.kb.size + 1 = size
      BY <2>1
    <3>. HIDE DEF at, size
    <3>1. [o EXCEPT !.kb.buffer[at] = key, !.kb.size = size]
              = [[o EXCEPT !.kb.buffer[at] = key] EXCEPT !.kb.size = size]
      BY DEF Of
    <3>2. [o EXCEPT !.kb.buffer[at] = key] = Of(a, b, put, t)
      BY DEF Of
    <3>3. [d EXCEPT !.buffer[at] = key, !.size = size] = [put EXCEPT !.size = size]
      OBVIOUS
    <3>. HIDE DEF put, e
    <3>4. [Of(a, b, put, t) EXCEPT !.kb.size = size]
              = Of(a, b, [put EXCEPT !.size = size], t)
      BY DEF Of
    <3>5. [o EXCEPT !.kb.buffer[at] = key, !.kb.size = size] = Of(a, b, e, t)
      BY <3>0, <3>1, <3>2, <3>3, <3>4
    <3>. QED
      BY <3>0, <3>5 DEF at
  <2>3. WriteKey(o, key) = SemPost(Of(a, b, e, t), KEYBOARD_SEM_ID)
    BY <1>2, <2>2 DEF WriteKey
  <2>4. Puts(d, key, e)
    BY DEF Puts
  <2>. HIDE DEF e, o
  <2>5. \E f : Puts(d, key, f) /\ WriteKey(o, key) = SemPost(Of(a, b, f, t), KEYBOARD_SEM_ID)
    BY <2>3, <2>4
  <2>. QED BY <2>5 DEF o
<1>. QED
  BY <1>1, <1>2

LEMMA WriteKeyTypes ==
    ASSUME NEW a, NEW b, NEW d \in Driver, NEW t, NEW key \in Keys, HasRoom(d)
    PROVE  Types(d, t, WriteKey(Of(a, b, d, t), key))
<1>. DEFINE o == WriteKey(Of(a, b, d, t), key)
<1>1. CASE o = Of(a, b, d, t)
  BY <1>1 DEF Types, Of
<1>2. ASSUME NEW e, Puts(d, key, e),
             o = SemPost(Of(a, b, e, t), KEYBOARD_SEM_ID)
      PROVE  Types(d, t, o)
  <2>1. o.kb = e /\ o.taken = t
    BY <1>2, SemPostKeepsBuffer
  <2>2. e \in Driver /\ KeysIn(e) = Append(KeysIn(d), key)
    BY <1>2, PutKey DEF HasRoom, Puts
  <2>3. Len(KeysIn(d)) < BUFFER_CAPACITY - 1
    BY KeysInProperty DEF HasRoom
  <2>. HIDE DEF o
  <2>. QED
    BY <2>1, <2>2, <2>3 DEF Types
<1>3. \/ o = Of(a, b, d, t)
      \/ \E e : /\ Puts(d, key, e)
               /\ o = SemPost(Of(a, b, e, t), KEYBOARD_SEM_ID)
  BY WriteKeyForm
<1>. QED
  BY <1>1, <1>2, <1>3

Shifts(d, e) ==
    \E down \in BOOLEAN : e = [d EXCEPT !.ctrl = down] \/ e = [d EXCEPT !.shift = down]

Drops(d, e) == d.ctrl /\ e = [d EXCEPT !.start = 0, !.size = 0]

\* The handler sets a flag, does Ctrl+C, stores a key or does nothing.
LEMMA HandlerForms ==
    ASSUME NEW a, NEW b, NEW d \in Driver, NEW t, NEW key \in Keys,
           NEW o \in KeyboardHandler(Of(a, b, d, t), key)
    PROVE  \/ o = Of(a, b, d, t)
           \/ \E e : Shifts(d, e) /\ o = Of(a, b, e, t)
           \/ \E e, x : Drops(d, e) /\ x \in KillForegroundProcess(a) /\ o = Of(x, b, e, t)
           \/ \E char \in Keys : HasRoom(d) /\ o = WriteKey(Of(a, b, d, t), char)
<1>. DEFINE s == Of(a, b, d, t)
            shifted == \E e : Shifts(d, e) /\ o = Of(a, b, e, t)
            dropped == \E e, x : Drops(d, e) /\ x \in KillForegroundProcess(a) /\ o = Of(x, b, e, t)
            written == \E char \in Keys : HasRoom(d) /\ o = WriteKey(Of(a, b, d, t), char)
<1>0. s.kb = d /\ s.k = a
  BY DEF Of
<1>1. ASSUME \/ o = [s EXCEPT !.kb.ctrl = TRUE] \/ o = [s EXCEPT !.kb.shift = TRUE]
             \/ o = [s EXCEPT !.kb.ctrl = FALSE] \/ o = [s EXCEPT !.kb.shift = FALSE]
      PROVE  shifted
  <2>1. PICK down \in BOOLEAN : \/ o = Of(a, b, [d EXCEPT !.ctrl = down], t)
                                \/ o = Of(a, b, [d EXCEPT !.shift = down], t)
    BY <1>1 DEF Of
  <2>2. Shifts(d, [d EXCEPT !.ctrl = down]) /\ Shifts(d, [d EXCEPT !.shift = down])
    BY DEF Shifts
  <2>. QED BY <2>1, <2>2
<1>2. ASSUME o \in CtrlCPressed(s), d.ctrl PROVE dropped
  <2>1. PICK x \in KillForegroundProcess(a) : o = [s EXCEPT !.kb.start = 0, !.kb.size = 0, !.k = x]
    BY <1>0, <1>2 DEF CtrlCPressed
  <2>2. o = Of(x, b, [d EXCEPT !.start = 0, !.size = 0], t)
    BY <2>1 DEF Of
  <2>3. Drops(d, [d EXCEPT !.start = 0, !.size = 0])
    BY <1>2 DEF Drops
  <2>. QED BY <2>2, <2>3
<1>3. ASSUME HasRoom(d), o = WriteKey(s, EOF_KEY) PROVE written
  <2>1. EOF_KEY \in Keys
    BY DEF EOF_KEY, Keys
  <2>. QED
    BY <1>3, <2>1
<1>4. ASSUME HasRoom(d), key < RELEASED,
             o = WriteKey(s, IF s.kb.shift THEN SHIFTED + key ELSE key)
      PROVE  written
  <2>1. (IF s.kb.shift THEN SHIFTED + key ELSE key) \in Keys
    BY <1>4 DEF SHIFTED, RELEASED, Keys
  <2>. QED
    BY <1>4, <2>1
<1>. SUFFICES o = s \/ shifted \/ dropped \/ written
  OBVIOUS
<1>. HIDE DEF s, shifted, dropped, written
<1>5. CASE key < RELEASED
  <2>1. o \in KeyDown(s, key)
    BY <1>5 DEF KeyboardHandler, s
  <2>2. CASE key = LCTRL
    BY <1>1, <2>1, <2>2 DEF KeyDown, LCTRL, LSHIFT
  <2>3. CASE key = LSHIFT
    BY <1>1, <2>1, <2>3 DEF KeyDown, LCTRL, LSHIFT
  <2>4. CASE key \notin {LCTRL, LSHIFT} /\ d.ctrl
    <3>1. o \in (IF key = C_KEY THEN CtrlCPressed(s)
                 ELSE IF key = D_KEY /\ HasRoom(d) THEN {WriteKey(s, EOF_KEY)} ELSE {s})
      BY <1>0, <2>1, <2>4 DEF KeyDown
    <3>. QED
      BY <1>2, <1>3, <2>4, <3>1
  <2>5. CASE key \notin {LCTRL, LSHIFT} /\ ~ d.ctrl
    <3>1. o \in (IF HasRoom(d)
                 THEN {WriteKey(s, IF s.kb.shift THEN SHIFTED + key ELSE key)} ELSE {s})
      BY <1>0, <2>1, <2>5 DEF KeyDown
    <3>. QED
      BY <1>4, <1>5, <3>1
  <2>. QED
    BY <2>2, <2>3, <2>4, <2>5
<1>6. CASE ~ (key < RELEASED)
  <2>1. o = KeyUp(s, key)
    BY <1>6 DEF KeyboardHandler, s
  <2>. QED
    BY <1>1, <2>1 DEF KeyUp
<1>. QED
  BY <1>5, <1>6

LEMMA HandlerTypes ==
    ASSUME NEW a, NEW b, NEW d \in Driver, NEW t, NEW key \in Keys,
           NEW o \in KeyboardHandler(Of(a, b, d, t), key)
    PROVE  Types(d, t, o)
<1>1. CASE o = Of(a, b, d, t)
  BY <1>1 DEF Types, Of
<1>2. ASSUME NEW e, Shifts(d, e), o = Of(a, b, e, t) PROVE Types(d, t, o)
  <2>1. o.taken = t /\ o.kb = e
    BY <1>2 DEF Of
  <2>2. e \in Driver /\ KeysIn(e) = KeysIn(d)
    BY <1>2, ShiftKeys DEF Shifts
  <2>. QED
    BY <2>1, <2>2 DEF Types
<1>3. ASSUME NEW e, NEW x, Drops(d, e), o = Of(x, b, e, t) PROVE Types(d, t, o)
  <2>1. o.taken = t /\ o.kb = e
    BY <1>3 DEF Of
  <2>2. e \in Driver /\ KeysIn(e) = << >> /\ d.ctrl
    BY <1>3, DropKeys DEF Drops
  <2>. QED
    BY <2>1, <2>2 DEF Types
<1>4. ASSUME NEW char \in Keys, HasRoom(d), o = WriteKey(Of(a, b, d, t), char)
      PROVE  Types(d, t, o)
  BY <1>4, WriteKeyTypes
<1>. QED
  BY <1>1, <1>2, <1>3, <1>4, HandlerForms

-----------------------------------------------------------------------------
(***************************************************************************)
(* The readers.                                                            *)
(***************************************************************************)

LEMMA HereIsOf == Here = Of(k, sems, kb, taken)
BY DEF Here, Of

LEMMA TypedIsKeysIn == Typed = KeysIn(kb)
BY DEF Typed, KeysIn, Slot

\* A step of the driver that is a step of the queue.
QueueStep ==
    /\ kb' \in Driver
    /\ \/ KeysIn(kb') = KeysIn(kb) /\ taken' = taken
       \/ /\ KeysIn(kb) # << >> /\ KeysIn(kb') = Tail(KeysIn(kb))
          /\ taken' = [byte |-> Head(KeysIn(kb)), flip |-> ~ taken.flip]
       \/ KeysIn(kb') = << >> /\ taken' = taken /\ kb.ctrl
       \/ /\ taken' = taken
          /\ \E key \in Keys : /\ Len(KeysIn(kb)) < BUFFER_CAPACITY - 1
                              /\ KeysIn(kb') = Append(KeysIn(kb), key)

\* getScancode, on a key that is there.
LEMMA TakeKeyForm ==
    ASSUME DriverInv, kb.size # 0, NEW x, NEW y
    PROVE  TakeKey(Of(x, y, kb, taken))
              = Of(x, y, [kb EXCEPT !.start = BufferIndex(kb, 1), !.size = @ - 1],
                   [byte |-> kb.buffer[kb.start], flip |-> ~ taken.flip])
<1>. DEFINE o == Of(x, y, kb, taken)
            e == [kb EXCEPT !.start = BufferIndex(kb, 1), !.size = @ - 1]
<1>0. o.kb = kb /\ o.taken = taken
  BY DEF Of
<1>1. Scancode(o) = kb.buffer[kb.start]
  <2>1. kb.size > 0
    BY DriverFields DEF DriverInv
  <2>. QED
    BY <1>0, <2>1 DEF Scancode
<1>2. TakeKey(o) = Of(x, y, e, [byte |-> kb.buffer[kb.start], flip |-> ~ taken.flip])
  <2>1. TakeKey(o) = [o EXCEPT !.kb.start = BufferIndex(kb, 1), !.kb.size = kb.size - 1,
                               !.taken = [byte |-> kb.buffer[kb.start], flip |-> ~ taken.flip]]
    BY <1>0, <1>1 DEF TakeKey
  <2>. DEFINE at == BufferIndex(kb, 1)
              size == kb.size - 1
              key  == [byte |-> kb.buffer[kb.start], flip |-> ~ taken.flip]
  <2>2. e = [kb EXCEPT !.start = at, !.size = size]
    OBVIOUS
  <2>. HIDE DEF at, size, key, e
  <2>3. [o EXCEPT !.kb.start = at, !.kb.size = size, !.taken = key]
            = Of(x, y, [kb EXCEPT !.start = at, !.size = size], key)
    <3>. DEFINE d == [kb EXCEPT !.start = at]
                g == [d EXCEPT !.size = size]
    <3>1. [o EXCEPT !.kb.start = at, !.kb.size = size, !.taken = key]
              = [[[o EXCEPT !.kb.start = at] EXCEPT !.kb.size = size] EXCEPT !.taken = key]
      BY DEF Of
    <3>2. [o EXCEPT !.kb.start = at] = Of(x, y, d, taken)
      BY DEF Of
    <3>3. [kb EXCEPT !.start = at, !.size = size] = g
      OBVIOUS
    <3>. HIDE DEF d
    <3>4. [Of(x, y, d, taken) EXCEPT !.kb.size = size] = Of(x, y, g, taken)
      BY DEF Of
    <3>. HIDE DEF g
    <3>5. [Of(x, y, g, taken) EXCEPT !.taken = key] = Of(x, y, g, key)
      BY DEF Of
    <3>. QED
      BY <3>1, <3>2, <3>3, <3>4, <3>5
  <2>. QED
    BY <2>1, <2>2, <2>3 DEF at, size, key
<1>. QED
  BY <1>2

\* Whatever the kernel and the semaphores are by then, a reader takes the oldest
\* key, if there is one.
LEMMA TakesKeyIsStep ==
    ASSUME DriverInv, NEW x, NEW y, TakesKey(Of(x, y, kb, taken))
    PROVE  QueueStep
<1>. DEFINE o == Of(x, y, kb, taken)
            e == [kb EXCEPT !.start = BufferIndex(kb, 1), !.size = @ - 1]
<1>1. o.kb = kb /\ o.taken = taken
  BY DEF Of
<1>2. kb' = TakeKey(o).kb /\ taken' = TakeKey(o).taken
  BY DEF TakesKey, Follows
<1>3. CASE kb.size = 0
  BY <1>1, <1>2, <1>3 DEF TakeKey, QueueStep, DriverInv
<1>4. CASE kb.size # 0
  <2>2. TakeKey(o) = Of(x, y, e, [byte |-> kb.buffer[kb.start], flip |-> ~ taken.flip])
    BY <1>4, TakeKeyForm
  <2>3. kb' = e /\ taken' = [byte |-> kb.buffer[kb.start], flip |-> ~ taken.flip]
    BY <1>2, <2>2 DEF Of
  <2>4. /\ e \in Driver
        /\ KeysIn(kb) # << >> /\ KeysIn(e) = Tail(KeysIn(kb))
        /\ Head(KeysIn(kb)) = kb.buffer[kb.start]
    BY <1>4, GetKey DEF DriverInv
  <2>. HIDE DEF e
  <2>. QED
    BY <2>3, <2>4 DEF QueueStep
<1>. QED
  BY <1>3, <1>4

LEMMA ReadKeyIsStep == DriverInv /\ ReadKey => QueueStep
<1>. SUFFICES ASSUME DriverInv, ReadKey PROVE QueueStep
  OBVIOUS
<1>. DEFINE w == SemWait(Here, KEYBOARD_SEM_ID)
<1>1. PICK x, y : w = Of(x, y, kb, taken)
  BY HereIsOf, SemWaitKeepsBuffer
<1>2. TakesKey(w) \/ Follows(w)
  BY DEF ReadKey
<1>. HIDE DEF w
<1>3. CASE TakesKey(w)
  BY <1>1, <1>3, TakesKeyIsStep
<1>4. CASE Follows(w)
  BY <1>1, <1>4 DEF Follows, Of, QueueStep, DriverInv
<1>. QED
  BY <1>2, <1>3, <1>4

LEMMA KeyInterruptIsStep == DriverInv /\ KeyInterrupt => QueueStep
<1>. SUFFICES ASSUME DriverInv, KeyInterrupt PROVE QueueStep
  OBVIOUS
<1>0. PICK key \in KeyCodes : \E o \in KeyboardHandler(Here, key) : Follows(o)
  BY DEF KeyInterrupt
<1>1. PICK o \in KeyboardHandler(Here, key) : Follows(o)
  BY <1>0
<1>2. key \in Keys
  BY KeyReadersAssumption
<1>3. Types(kb, taken, o)
  BY <1>1, <1>2, HereIsOf, HandlerTypes DEF DriverInv
<1>4. kb' = o.kb /\ taken' = o.taken
  BY <1>1 DEF Follows
<1>. QED
  BY <1>3, <1>4 DEF Types, QueueStep

LEMMA ReadersStep == DriverInv /\ [ReadersNext]_readerVars => QueueStep
<1>. SUFFICES ASSUME DriverInv, [ReadersNext]_readerVars PROVE QueueStep
  OBVIOUS
<1>1. CASE UNCHANGED << kb, taken >>
  BY <1>1 DEF QueueStep, DriverInv
<1>2. CASE WakeInRead
  <2>1. TakesKey(Here)
    BY <1>2 DEF WakeInRead
  <2>. QED
    BY <2>1, HereIsOf, TakesKeyIsStep
<1>3. CASE ShellYields
  <2>1. Follows([Here EXCEPT !.k = Yield(k)])
    BY <1>3 DEF ShellYields, Here
  <2>. DEFINE x == Yield(k)
  <2>. HIDE DEF x
  <2>2. [Here EXCEPT !.k = x].kb = kb /\ [Here EXCEPT !.k = x].taken = taken
    BY DEF Here
  <2>. QED
    BY <1>1, <2>1, <2>2 DEF Follows, x
<1>4. ReadKey \/ KeyInterrupt \/ WakeInRead \/ ShellYields \/ UNCHANGED << kb, taken >>
  BY DEF ReadersNext, ProgramStep, Tick, ShellRunsBuiltIn, ShellStartsCat, ShellWaits,
         ShellKillsCat, CatExits, readerVars
<1>. QED
  BY <1>1, <1>2, <1>3, <1>4, ReadKeyIsStep, KeyInterruptIsStep

LEMMA ReadersInitially == ReadersInit => DriverInv /\ KeyQueue!Init
<1>. SUFFICES ASSUME ReadersInit PROVE DriverInv /\ KeyQueue!Init
  OBVIOUS
<1>1. /\ kb = [ctrl |-> FALSE, shift |-> FALSE, buffer |-> [i \in KeyIndex |-> 0],
               start |-> 0, size |-> 0]
      /\ taken = [byte |-> 0, flip |-> FALSE]
  BY DEF ReadersInit, KeyboardInit
<1>2. 0 \in KeyIndex /\ 0 \in Keys
  BY KeyboardAssumption DEF KeyIndex, Keys
<1>3. kb \in Driver
  BY <1>1, <1>2 DEF Driver
<1>4. KeysIn(kb) = << >>
  <2>1. KeysIn(kb) \in Seq(Keys) /\ Len(KeysIn(kb)) = 0
    BY <1>1, <1>3, KeysInProperty
  <2>. HIDE DEF KeysIn
  <2>. QED
    BY <2>1
<1>. QED
  BY <1>1, <1>3, <1>4, TypedIsKeysIn DEF DriverInv, KeyQueue!Init

LEMMA QueueStepIsStep == QueueStep => DriverInv' /\ KeyQueue!Step
<1>. SUFFICES ASSUME QueueStep PROVE DriverInv' /\ KeyQueue!Step
  OBVIOUS
<1>1. Typed = KeysIn(kb) /\ Typed' = KeysIn(kb')
  BY DEF Typed, KeysIn, Slot
<1>. QED
  BY <1>1 DEF QueueStep, DriverInv, KeyQueue!Step, KeyQueue!Next, KeyQueue!Write,
              KeyQueue!Read, KeyQueue!Clear

\* However the keyboard interrupt, Ctrl+C, kill and the readers interleave, the
\* keys come out of the ring of keyboard.c once and in the order they were typed,
\* for every capacity of the buffer and any number of readers.
THEOREM KeyBufferIsFifo == ReadersSpec => KeysAreFifo
<1>1. DriverInv /\ [ReadersNext]_readerVars => DriverInv' /\ KeyQueue!Step
  BY ReadersStep, QueueStepIsStep
<1>. QED
  BY ReadersInitially, <1>1, PTL DEF ReadersSpec, KeysAreFifo, KeyQueue!Spec

-----------------------------------------------------------------------------
(***************************************************************************)
(* Nobody sleeps on a key.  The inductive invariant is stated over a state *)
(* s of the scheduler, the queue q of the semaphore, the places at where   *)
(* the programs are, and the context sh of the shell.  The pid of a dead   *)
(* reader stays in q until the next sem_post, and pids are used again: no  *)
(* new process inherits a place in q because of where the shell was when q *)
(* was purged (Clean).                                                     *)
(***************************************************************************)
ShellLives(s, at, sh) ==
    /\ sh \in Ctx /\ s.status[sh] \in Live /\ s.pid[sh] = SHELL_PID
    /\ at[sh] \in {"getchar", "inRead", "yield", "command", "wait"}

\* Everybody else is a cat, or idle, which runs no program.
Labels(s, at, sh) ==
    \A c \in Ctx \ {sh} :
        /\ at[c] \in {"getchar", "inRead", "exit", "none"}
        /\ s.status[c] \in Live /\ s.pid[c] = IDLE_PID => at[c] = "none"

\* Only the shell waits for processes, for one at a time.
Waiting(s, at, sh) ==
    \A c \in Ctx : s.status[c] \in Live => \A w \in ToSet(s.waitingList[c]) :
        /\ w = sh /\ c # sh /\ s.status[sh] = "BLOCKED" /\ at[sh] = "getchar"
        /\ \A d \in Ctx : s.status[d] \in Live /\ sh \in ToSet(s.waitingList[d]) => d = c

IsCat(s, sh, c) == c # sh /\ s.status[c] # "FREED" /\ s.ground[c] = FOREGROUND

\* While there is a cat in the foreground, one at most, the shell does not read.
Foreground(s, at, sh) ==
    \A c \in Ctx : IsCat(s, sh, c) =>
        /\ \A d \in Ctx : IsCat(s, sh, d) => d = c
        /\ \/ at[sh] = "wait"
           \/ /\ at[sh] = "getchar"
              /\ s.status[c] = "TERMINATED" \/ sh \in ToSet(s.waitingList[c])

\* Nobody has the pid of a process that was killed while it ran.
Unclaimed(s) ==
    \A c \in Ctx : s.status[c] = "TERMINATED" =>
        \A d \in Ctx : s.status[d] \in Live => s.pid[d] # s.pid[c]

\* Between two handlers that one was killed by Ctrl+C.
DeadCat(s) == \A c \in Ctx : s.status[c] = "TERMINATED" => s.ground[c] = FOREGROUND

World(s, at, sh) ==
    /\ Inv(s) /\ AtConsole(s)
    /\ DOMAIN at = Ctx
    /\ ShellLives(s, at, sh) /\ Labels(s, at, sh)
    /\ Waiting(s, at, sh) /\ Foreground(s, at, sh) /\ Unclaimed(s)

\* The pid of a process that lives is in the queue only while it sleeps there, once.
Sleepers(s, q, at) ==
    \A c \in Ctx : s.status[c] \in Live => \A i \in 1 .. Len(q) : q[i] = s.pid[c] =>
        /\ s.status[c] = "BLOCKED" /\ at[c] = "inRead"
        /\ \A j \in 1 .. Len(q) : q[j] = s.pid[c] => j = i

AllLive(s, q) == \A i \in 1 .. Len(q) : \E c \in Ctx : s.status[c] \in Live /\ s.pid[c] = q[i]

\* From the sem_post that gives the shell a key to the command the line ends with.
Commanding(s, at, sh) == at[sh] = "command" \/ (at[sh] = "inRead" /\ s.status[sh] # "BLOCKED")

Clean(s, q, at, sh) == Commanding(s, at, sh) => AllLive(s, q)

InQueue(s, q, at, sh) == q \in Seq(Pids) /\ Sleepers(s, q, at) /\ Clean(s, q, at, sh)

\* The readers that sem_wait let through and that have not taken their key yet.
Granting(s, at) == {c \in Ctx : at[c] = "inRead" /\ s.status[c] \in {"READY", "RUNNING"}}

HasTokens(s, n, size, at, lost) == ~ lost => size <= n + Cardinality(Granting(s, at))

SemInOrder(m) ==
    /\ m \in [SemIds -> Semaphore] /\ m[KEYBOARD_SEM_ID].active
    /\ m[KEYBOARD_SEM_ID].counter > 0 => m[KEYBOARD_SEM_ID].waitQueue = << >>

Reading(s, m, size, at, lost, sh) ==
    /\ World(s, at, sh) /\ DeadCat(s)
    /\ SemInOrder(m)
    /\ InQueue(s, m[KEYBOARD_SEM_ID].waitQueue, at, sh)
    /\ HasTokens(s, m[KEYBOARD_SEM_ID].counter, size, at, lost)

LEMMA KeyboardSem == KEYBOARD_SEM_ID \in SemIds
BY KeyboardAssumption

\* What is counted is a finite number.
LEMMA GrantingFinite ==
    ASSUME NEW s, NEW at
    PROVE  IsFiniteSet(Granting(s, at)) /\ Cardinality(Granting(s, at)) \in Nat
BY SchedulerAssumption, FS_Subset, FS_CardinalityType DEF Granting

\* A tick, or a yield.
LEMMA TurnWorld ==
    ASSUME NEW s, NEW at, NEW sh, World(s, at, sh), NEW t, Inv(t), AtConsole(t), Turn(s, t)
    PROVE  World(t, at, sh) /\ (DeadCat(s) => DeadCat(t))
<1>0. sh \in Ctx
  BY DEF World, ShellLives
<1>1. \A c \in Ctx :
        /\ t.status[c] \in Live <=> s.status[c] \in Live
        /\ t.status[c] = "BLOCKED" <=> s.status[c] = "BLOCKED"
        /\ t.status[c] = "TERMINATED" => s.status[c] = "TERMINATED"
        /\ t.status[c] # "FREED" => /\ s.status[c] # "FREED"
                                    /\ t.pid[c] = s.pid[c] /\ t.ground[c] = s.ground[c]
                                    /\ t.waitingList[c] = s.waitingList[c]
        /\ t.status[c] \in Live => t.status[c] # "FREED"
  <2>1. Inv(s)
    BY DEF World
  <2>. QED BY <2>1, StatusType DEF Turn, Stays, SameProcess, Live
<1>2. ShellLives(t, at, sh) /\ Labels(t, at, sh)
  BY <1>0, <1>1 DEF World, ShellLives, Labels
<1>3. Waiting(t, at, sh)
  BY <1>0, <1>1 DEF World, Waiting
<1>4. Foreground(t, at, sh)
  <2>. SUFFICES ASSUME NEW c \in Ctx, IsCat(t, sh, c)
                PROVE  /\ \A d \in Ctx : IsCat(t, sh, d) => d = c
                       /\ \/ at[sh] = "wait"
                          \/ /\ at[sh] = "getchar"
                             /\ t.status[c] = "TERMINATED" \/ sh \in ToSet(t.waitingList[c])
    BY DEF Foreground
  <2>1. \A d \in Ctx : IsCat(t, sh, d) => IsCat(s, sh, d)
    BY <1>1 DEF IsCat
  <2>2. /\ \A d \in Ctx : IsCat(s, sh, d) => d = c
        /\ \/ at[sh] = "wait"
           \/ /\ at[sh] = "getchar"
              /\ s.status[c] = "TERMINATED" \/ sh \in ToSet(s.waitingList[c])
    BY <2>1 DEF World, Foreground
  <2>3. s.status[c] = "TERMINATED" => t.status[c] = "TERMINATED"
    <3>1. t.status[c] # "FREED"
      BY DEF IsCat
    <3>. QED BY <1>1, <3>1, StatusType DEF Live
  <2>. QED BY <1>1, <2>1, <2>2, <2>3 DEF IsCat
<1>5. Unclaimed(t)
  <2>1. \A c \in Ctx : t.status[c] = "TERMINATED" => t.pid[c] = s.pid[c]
    BY <1>1
  <2>. QED BY <1>1, <2>1 DEF World, Unclaimed
<1>6. DeadCat(s) => DeadCat(t)
  <2>1. \A c \in Ctx : t.status[c] = "TERMINATED" => t.ground[c] = s.ground[c]
    BY <1>1
  <2>. QED BY <1>1, <2>1 DEF DeadCat
<1>. QED
  BY <1>2, <1>3, <1>4, <1>5, <1>6 DEF World

LEMMA TurnQueue ==
    ASSUME NEW s, NEW at, NEW sh, World(s, at, sh), NEW t, Inv(t), Turn(s, t)
    PROVE  /\ \A q : InQueue(s, q, at, sh) => InQueue(t, q, at, sh)
           /\ Granting(t, at) = Granting(s, at)
<1>0. sh \in Ctx
  BY DEF World, ShellLives
<1>1. \A c \in Ctx :
        /\ t.status[c] \in Live <=> s.status[c] \in Live
        /\ t.status[c] = "BLOCKED" <=> s.status[c] = "BLOCKED"
        /\ t.status[c] \in Live => t.pid[c] = s.pid[c]
  BY StatusType DEF Turn, Stays, SameProcess, Live
<1>2. ASSUME NEW q, InQueue(s, q, at, sh) PROVE InQueue(t, q, at, sh)
  <2>1. Sleepers(t, q, at)
    BY <1>1, <1>2 DEF InQueue, Sleepers
  <2>2. Clean(t, q, at, sh)
    BY <1>0, <1>1, <1>2 DEF InQueue, Clean, Commanding, AllLive
  <2>. QED BY <1>2, <2>1, <2>2 DEF InQueue
<1>3. Granting(t, at) = Granting(s, at)
  <2>1. \A c \in Ctx : t.status[c] \in {"READY", "RUNNING"} <=> s.status[c] \in {"READY", "RUNNING"}
    BY <1>1 DEF Live
  <2>. QED BY <2>1 DEF Granting
<1>. QED
  BY <1>2, <1>3

\* The program of c goes on to label.
Moves(at, c, label, at2) == at2 = [at EXCEPT ![c] = label]

\* The program of the process that runs goes on, as far as it is no shell that
\* waits: then there is no cat in the foreground.
LEMMA MoveWorld ==
    ASSUME NEW s, NEW at, NEW sh, World(s, at, sh), NEW c \in Ctx, c = s.currentProcess,
           NEW label, NEW at2, Moves(at, c, label, at2),
           at[c] \notin {"wait", "none"},
           c = sh => label \in {"getchar", "inRead", "yield", "command", "wait"},
           c # sh => label \in {"getchar", "inRead", "exit", "none"}
    PROVE  /\ World(s, at2, sh)
           /\ c = sh => \A d \in Ctx : ~ IsCat(s, sh, d)
<1>0. /\ sh \in Ctx /\ Inv(s) /\ DOMAIN at = Ctx /\ DOMAIN at2 = Ctx
      /\ \A d \in Ctx : at2[d] = IF d = c THEN label ELSE at[d]
  BY DEF Moves, World, ShellLives
<1>1. c # NULL /\ s.status[c] \in {"RUNNING", "TERMINATED"}
      /\ \A d \in Ctx : s.status[d] = "TERMINATED" => d = c
  BY <1>0, SchedulerAssumption DEF Inv, Cpu
<1>2. ShellLives(s, at2, sh)
  BY <1>0 DEF World, ShellLives
<1>3. Labels(s, at2, sh)
  BY <1>0 DEF World, Labels
<1>4. c = sh => \A d \in Ctx : ~ IsCat(s, sh, d)
  <2>. SUFFICES ASSUME c = sh, NEW d \in Ctx, IsCat(s, sh, d) PROVE FALSE
    OBVIOUS
  <2>1. s.status[sh] = "RUNNING"
    BY <1>1 DEF World, ShellLives, Live
  <2>2. s.status[d] = "TERMINATED" \/ sh \in ToSet(s.waitingList[d])
    BY DEF World, Foreground
  <2>3. s.status[d] # "TERMINATED"
    BY <1>1 DEF IsCat
  <2>4. s.status[d] \in Live
    BY <1>0, <2>3, StatusType DEF IsCat, Live
  <2>. QED BY <2>1, <2>2, <2>3, <2>4 DEF World, Waiting
<1>5. Waiting(s, at2, sh)
  <2>1. s.status[sh] = "BLOCKED" => at2[sh] = at[sh]
    BY <1>0, <1>1
  <2>. QED BY <2>1 DEF World, Waiting
<1>6. Foreground(s, at2, sh)
  <2>1. c # sh => at2[sh] = at[sh]
    BY <1>0
  <2>. QED BY <1>4, <2>1 DEF World, Foreground
<1>. QED
  BY <1>0, <1>2, <1>3, <1>4, <1>5, <1>6 DEF World

\* The queue is none of its business, unless it is the shell that got a line.
LEMMA MoveQueue ==
    ASSUME NEW s, NEW at, NEW sh, World(s, at, sh), NEW c \in Ctx, c = s.currentProcess,
           NEW label, NEW at2, Moves(at, c, label, at2), label # "inRead",
           NEW q, InQueue(s, q, at, sh), c = sh /\ label = "command" => AllLive(s, q)
    PROVE  InQueue(s, q, at2, sh)
<1>0. /\ sh \in Ctx /\ Inv(s)
      /\ \A d \in Ctx : at2[d] = IF d = c THEN label ELSE at[d]
  BY DEF Moves, World, ShellLives
<1>1. s.status[c] \in {"RUNNING", "TERMINATED"}
  BY <1>0, SchedulerAssumption DEF Inv, Cpu
<1>2. Sleepers(s, q, at2)
  <2>1. \A d \in Ctx : s.status[d] = "BLOCKED" => at2[d] = at[d]
    BY <1>0, <1>1
  <2>. QED BY <2>1 DEF InQueue, Sleepers
<1>3. Clean(s, q, at2, sh)
  <2>1. c # sh => at2[sh] = at[sh]
    BY <1>0
  <2>2. c = sh => at2[sh] = label
    BY <1>0
  <2>. QED BY <2>1, <2>2 DEF InQueue, Clean, Commanding
<1>. QED
  BY <1>2, <1>3 DEF InQueue

LEMMA MoveGranting ==
    ASSUME NEW s, NEW at, DOMAIN at = Ctx, NEW c \in Ctx, NEW label, NEW at2,
           Moves(at, c, label, at2), label # "inRead"
    PROVE  Granting(s, at2) = Granting(s, at) \ {c}
<1>1. \A d \in Ctx : at2[d] = IF d = c THEN label ELSE at[d]
  BY DEF Moves
<1>. QED
  BY <1>1 DEF Granting

\* A key leaves with the token that paid for it.
LEMMA TokenTaken ==
    ASSUME NEW s, NEW at, NEW n \in Nat, NEW size \in Nat, NEW lost, HasTokens(s, n, size, at, lost),
           NEW t, NEW at2, NEW n2 \in Nat, NEW size2,
           size2 = IF size = 0 THEN 0 ELSE size - 1,
           n2 + Cardinality(Granting(t, at2)) >= n + Cardinality(Granting(s, at)) - 1
    PROVE  HasTokens(t, n2, size2, at2, lost)
<1>. DEFINE g  == Cardinality(Granting(s, at))
            g2 == Cardinality(Granting(t, at2))
<1>1. g \in Nat /\ g2 \in Nat
  BY GrantingFinite
<1>2. n2 + g2 >= n + g - 1 /\ (~ lost => size <= n + g)
  BY DEF HasTokens
<1>. HIDE DEF g, g2
<1>3. ~ lost => size2 <= n2 + g2
  BY <1>1, <1>2
<1>. QED
  BY <1>3 DEF HasTokens, g2

LEMMA OneLessGranted ==
    ASSUME NEW s, NEW at, NEW at2, NEW c, Granting(s, at2) = Granting(s, at) \ {c}
    PROVE  Cardinality(Granting(s, at2)) >= Cardinality(Granting(s, at)) - 1
<1>1. /\ IsFiniteSet(Granting(s, at)) /\ Cardinality(Granting(s, at)) \in Nat
  BY GrantingFinite
<1>2. Cardinality(Granting(s, at) \ {c})
        = IF c \in Granting(s, at) THEN Cardinality(Granting(s, at)) - 1
                                   ELSE Cardinality(Granting(s, at))
  BY <1>1, FS_RemoveElement
<1>. QED
  BY <1>1, <1>2

\* The last lines of getAscii, whoever runs them.
LEMMA ReaderGoesOn ==
    ASSUME NEW s, NEW m, NEW size \in Nat, NEW at, NEW lost, NEW sh,
           World(s, at, sh), DeadCat(s), SemInOrder(m),
           InQueue(s, m[KEYBOARD_SEM_ID].waitQueue, at, sh),
           NEW n \in Nat, HasTokens(s, n, size, at, lost),
           NEW c \in Ctx, c = s.currentProcess, at[c] \in {"getchar", "inRead"},
           NEW label, NEW at2, Moves(at, c, label, at2),
           c = sh => label \in {"getchar", "yield", "command"},
           c # sh => label \in {"getchar", "exit"},
           c = sh /\ label = "command" => AllLive(s, m[KEYBOARD_SEM_ID].waitQueue),
           \/ at[c] = "inRead" /\ m[KEYBOARD_SEM_ID].counter = n
           \/ at[c] = "getchar" /\ m[KEYBOARD_SEM_ID].counter + 1 >= n,
           NEW size2, size2 = IF size = 0 THEN 0 ELSE size - 1
    PROVE  Reading(s, m, size2, at2, lost, sh)
<1>. DEFINE q  == m[KEYBOARD_SEM_ID].waitQueue
            n2 == m[KEYBOARD_SEM_ID].counter
<1>1. World(s, at2, sh)
  BY MoveWorld
<1>2. label # "inRead" /\ InQueue(s, q, at, sh) /\ (c = sh /\ label = "command" => AllLive(s, q))
  OBVIOUS
<1>3. n2 \in Nat
  BY KeyboardSem DEF SemInOrder, Semaphore
<1>4. n2 = n \/ (at[c] = "getchar" /\ n2 + 1 >= n)
  OBVIOUS
<1>. HIDE DEF q, n2
<1>5. InQueue(s, q, at2, sh) /\ Granting(s, at2) = Granting(s, at) \ {c}
  <2>1. InQueue(s, q, at2, sh)
    BY <1>2, MoveQueue
  <2>2. DOMAIN at = Ctx
    BY DEF World
  <2>3. Granting(s, at2) = Granting(s, at) \ {c}
    BY <1>2, <2>2, MoveGranting
  <2>. QED BY <2>1, <2>3
<1>6. n2 + Cardinality(Granting(s, at2)) >= n + Cardinality(Granting(s, at)) - 1
  <2>1. /\ Cardinality(Granting(s, at)) \in Nat /\ Cardinality(Granting(s, at2)) \in Nat
    BY GrantingFinite
  <2>2. Cardinality(Granting(s, at2)) >= Cardinality(Granting(s, at)) - 1
    BY <1>5, OneLessGranted
  <2>3. at[c] = "getchar" => Granting(s, at2) = Granting(s, at)
    BY <1>5 DEF Granting
  <2>4. CASE n2 = n
    BY <1>3, <2>1, <2>2, <2>4
  <2>5. CASE at[c] = "getchar" /\ n2 + 1 >= n
    <3>1. Cardinality(Granting(s, at2)) = Cardinality(Granting(s, at))
      BY <2>3, <2>5
    <3>. QED BY <1>3, <2>1, <2>5, <3>1
  <2>. QED BY <1>4, <2>4, <2>5
<1>7. HasTokens(s, n2, size2, at2, lost)
  BY <1>3, <1>6, TokenTaken
<1>. QED
  BY <1>1, <1>5, <1>7 DEF Reading, q, n2

\* A reader that was killed while it ran queues its pid, which is nobody's, and
\* goes on.
LEMMA DeadQueues ==
    ASSUME NEW s, NEW at, NEW sh, World(s, at, sh), DeadCat(s), NEW q, InQueue(s, q, at, sh),
           NEW c \in Ctx, c = s.currentProcess, s.status[c] = "TERMINATED"
    PROVE  /\ BlockProcess(s, s.currentPid) = s
           /\ InQueue(s, Append(q, s.currentPid), at, sh) /\ c # sh
<1>. DEFINE q2 == Append(q, s.currentPid)
<1>0. /\ Inv(s) /\ c # NULL /\ s \in Kernel /\ sh \in Ctx /\ s.status[sh] \in Live
      /\ s.currentPid = s.pid[c] /\ s.pid[c] \in Pids
  BY SchedulerAssumption DEF World, ShellLives, Inv, Common, Cpu, Identity
<1>1. \A d \in Ctx : s.status[d] \in Live => s.pid[d] # s.currentPid
  BY <1>0 DEF World, Unclaimed
<1>2. BlockProcess(s, s.currentPid) = s
  <2>1. FindProcess(s, s.currentPid) = NULL
    <3>. SUFFICES ASSUME FindProcess(s, s.currentPid) # NULL PROVE FALSE
      OBVIOUS
    <3>. DEFINE d == FindProcess(s, s.currentPid)
    <3>1. d \in Ctx /\ d \in ToSet(s.processList) /\ s.pid[d] = s.currentPid
      BY <1>0, FindProcessProperty
    <3>2. s.status[d] \in Live
      BY <1>0, <3>1 DEF Inv, Common, Lists
    <3>. QED BY <1>1, <3>1, <3>2
  <2>. QED BY <2>1 DEF BlockProcess
<1>3. c # sh
  BY <1>0 DEF Live
<1>4. /\ q \in Seq(Pids) /\ q2 \in Seq(Pids) /\ Len(q2) = Len(q) + 1 /\ Len(q) \in Nat
      /\ \A i \in 1 .. Len(q2) : (i \in 1 .. Len(q) /\ q2[i] = q[i]) \/ q2[i] = s.currentPid
      /\ \A i \in 1 .. Len(q) : q2[i] = q[i]
  BY <1>0 DEF InQueue
<1>. HIDE DEF q2
<1>5. Sleepers(s, q2, at)
  <2>. SUFFICES ASSUME NEW d \in Ctx, s.status[d] \in Live, NEW i \in 1 .. Len(q2), q2[i] = s.pid[d]
                PROVE  /\ s.status[d] = "BLOCKED" /\ at[d] = "inRead"
                       /\ \A j \in 1 .. Len(q2) : q2[j] = s.pid[d] => j = i
    BY DEF Sleepers
  <2>1. \A j \in 1 .. Len(q2) : q2[j] = s.pid[d] => j \in 1 .. Len(q) /\ q[j] = s.pid[d]
    BY <1>1, <1>4
  <2>. QED BY <2>1 DEF InQueue, Sleepers
<1>6. Clean(s, q2, at, sh)
  <2>1. IsCat(s, sh, c)
    BY <1>3 DEF IsCat, DeadCat
  <2>2. at[sh] \in {"wait", "getchar"}
    BY <2>1 DEF World, Foreground
  <2>. QED BY <2>2 DEF Clean, Commanding
<1>7. InQueue(s, q2, at, sh)
  BY <1>4, <1>5, <1>6 DEF InQueue
<1>. QED
  BY <1>2, <1>3, <1>7 DEF q2

\* The pid goes to the end of the queue of the keyboard's semaphore.
Queues(m, pid, m2) == m2 = [m EXCEPT ![KEYBOARD_SEM_ID] = Enqueue(@, pid)]

\* A reader that finds no token sleeps.
LEMMA ReaderSleeps ==
    ASSUME NEW s, NEW m, NEW size \in Nat, NEW at, NEW lost, NEW sh,
           Reading(s, m, size, at, lost, sh),
           m[KEYBOARD_SEM_ID].counter = 0,
           NEW c \in Ctx, c = s.currentProcess, s.status[c] # "TERMINATED", at[c] = "getchar",
           NEW at2, Moves(at, c, "inRead", at2),
           NEW t, t = BlockProcess(s, s.currentPid),
           NEW m2, Queues(m, s.currentPid, m2)
    PROVE  Reading(t, m2, size, at2, lost, sh) /\ t.currentProcess # c
<1>. DEFINE q  == m[KEYBOARD_SEM_ID].waitQueue
            q2 == Append(q, s.currentPid)
<1>0. /\ Inv(s) /\ AtConsole(s) /\ c # NULL /\ s \in Kernel /\ sh \in Ctx /\ DOMAIN at = Ctx
      /\ s.currentPid = s.pid[c] /\ s.pid[c] \in Pids /\ s.status[c] = "RUNNING"
      /\ World(s, at, sh) /\ DeadCat(s)
  BY SchedulerAssumption DEF Reading, World, ShellLives, Inv, Common, Cpu, Identity
<1>1. s.status[c] \in Live /\ s.pid[c] # IDLE_PID
  <2>1. s.status[c] \in Live
    BY <1>0 DEF Live
  <2>2. c = sh => s.pid[c] # IDLE_PID
    BY <1>0 DEF World, ShellLives, SHELL_PID, IDLE_PID
  <2>3. c # sh => s.pid[c] # IDLE_PID
    BY <1>0, <2>1 DEF World, Labels
  <2>. QED BY <2>1, <2>2, <2>3
<1>2. /\ Inv(t) /\ t.currentProcess # c /\ t.status[c] = "BLOCKED"
      /\ SameProcess(s, t, c) /\ \A d \in Ctx \ {c} : Stays(s, t, d)
  BY <1>0, <1>1, CallerTurns
<1>3. AtConsole(t)
  <2>1. Undead(s)
    BY <1>0, <1>1, RunningAlone
  <2>. QED BY <1>0, <1>1, <2>1, ConsoleBlock
<1>4. \A d \in Ctx :
        /\ t.status[d] \in Live <=> s.status[d] \in Live
        /\ t.status[d] = "BLOCKED" <=> s.status[d] = "BLOCKED" \/ d = c
        /\ t.status[d] = "TERMINATED" => s.status[d] = "TERMINATED"
        /\ t.status[d] # "FREED" => /\ s.status[d] # "FREED"
                                    /\ t.pid[d] = s.pid[d] /\ t.ground[d] = s.ground[d]
                                    /\ t.waitingList[d] = s.waitingList[d]
        /\ t.status[d] \in Live => t.status[d] # "FREED"
        /\ at2[d] = IF d = c THEN "inRead" ELSE at[d]
  BY <1>0, <1>1, <1>2, StatusType DEF Stays, SameProcess, Live, Moves
<1>5. DOMAIN at2 = Ctx
  BY <1>0 DEF Moves
<1>6. /\ ShellLives(t, at2, sh) /\ Labels(t, at2, sh)
  BY <1>0, <1>1, <1>4 DEF World, ShellLives, Labels
<1>7. c = sh => \A d \in Ctx : ~ IsCat(s, sh, d)
  <2>1. \E at3 : Moves(at, c, "getchar", at3)
    BY DEF Moves
  <2>2. PICK at3 : Moves(at, c, "getchar", at3)
    BY <2>1
  <2>. QED BY <1>0, <2>2, MoveWorld
<1>8. Waiting(t, at2, sh)
  <2>. SUFFICES ASSUME NEW d \in Ctx, t.status[d] \in Live, NEW w \in ToSet(t.waitingList[d])
                PROVE  /\ w = sh /\ d # sh /\ t.status[sh] = "BLOCKED" /\ at2[sh] = "getchar"
                       /\ \A e \in Ctx : t.status[e] \in Live /\ sh \in ToSet(t.waitingList[e]) => e = d
    BY DEF Waiting
  <2>1. /\ w = sh /\ d # sh /\ s.status[sh] = "BLOCKED" /\ at[sh] = "getchar"
        /\ \A e \in Ctx : s.status[e] \in Live /\ sh \in ToSet(s.waitingList[e]) => e = d
    BY <1>0, <1>4 DEF World, Waiting
  <2>2. c # sh
    BY <1>0, <2>1
  <2>. QED BY <1>0, <1>4, <2>1, <2>2
<1>9. Foreground(t, at2, sh)
  <2>. SUFFICES ASSUME NEW d \in Ctx, IsCat(t, sh, d)
                PROVE  /\ \A e \in Ctx : IsCat(t, sh, e) => e = d
                       /\ \/ at2[sh] = "wait"
                          \/ /\ at2[sh] = "getchar"
                             /\ t.status[d] = "TERMINATED" \/ sh \in ToSet(t.waitingList[d])
    BY DEF Foreground
  <2>1. \A e \in Ctx : IsCat(t, sh, e) => IsCat(s, sh, e)
    BY <1>4 DEF IsCat
  <2>2. /\ \A e \in Ctx : IsCat(s, sh, e) => e = d
        /\ \/ at[sh] = "wait"
           \/ /\ at[sh] = "getchar"
              /\ s.status[d] = "TERMINATED" \/ sh \in ToSet(s.waitingList[d])
    BY <1>0, <2>1 DEF World, Foreground
  <2>3. s.status[d] # "TERMINATED" /\ c # sh
    BY <1>0, <1>1, <1>7, <2>1, RunningAlone DEF Undead
  <2>. QED BY <1>0, <1>4, <2>1, <2>2, <2>3 DEF IsCat
<1>10. Unclaimed(t) /\ DeadCat(t)
  <2>1. \A d \in Ctx : t.status[d] # "TERMINATED"
    BY <1>0, <1>1, <1>4, RunningAlone DEF Undead
  <2>. QED BY <2>1 DEF Unclaimed, DeadCat
<1>11. World(t, at2, sh)
  BY <1>2, <1>3, <1>5, <1>6, <1>8, <1>9, <1>10 DEF World
<1>12. /\ m \in [SemIds -> Semaphore] /\ m[KEYBOARD_SEM_ID].active
       /\ q \in Seq(Pids) /\ InQueue(s, q, at, sh)
  BY DEF Reading, SemInOrder, InQueue
<1>13. /\ q \in Seq(Pids) /\ q2 \in Seq(Pids) /\ Len(q2) = Len(q) + 1 /\ Len(q) \in Nat
       /\ \A i \in 1 .. Len(q2) : \/ i \in 1 .. Len(q) /\ q2[i] = q[i]
                                  \/ i = Len(q2) /\ q2[i] = s.currentPid
       /\ \A i \in 1 .. Len(q) : q2[i] = q[i]
  <2>1. q \in Seq(Pids) /\ s.currentPid \in Pids
    BY <1>0, <1>12
  <2>. HIDE DEF q
  <2>2. /\ q2 \in Seq(Pids) /\ Len(q2) = Len(q) + 1 /\ Len(q) \in Nat
        /\ \A i \in 1 .. Len(q) : q2[i] = q[i]
        /\ q2[Len(q) + 1] = s.currentPid
    BY <2>1
  <2>. HIDE DEF q2
  <2>3. \A i \in 1 .. Len(q2) : i \in 1 .. Len(q) \/ i = Len(q2)
    BY <2>2
  <2>. QED BY <2>1, <2>2, <2>3
<1>14. /\ m2 \in [SemIds -> Semaphore] /\ m2[KEYBOARD_SEM_ID].active
       /\ m2[KEYBOARD_SEM_ID].counter = 0 /\ m2[KEYBOARD_SEM_ID].waitQueue = q2
  <2>1. m[KEYBOARD_SEM_ID] \in Semaphore
    BY <1>12, KeyboardSem
  <2>2. /\ Enqueue(m[KEYBOARD_SEM_ID], s.currentPid) \in Semaphore
        /\ Enqueue(m[KEYBOARD_SEM_ID], s.currentPid).waitQueue = q2
        /\ Enqueue(m[KEYBOARD_SEM_ID], s.currentPid).counter = 0
        /\ Enqueue(m[KEYBOARD_SEM_ID], s.currentPid).active
    BY <1>12, <1>13, <2>1 DEF Enqueue, Semaphore
  <2>. QED BY <1>12, <2>2, KeyboardSem DEF Queues
<1>. HIDE DEF q, q2
<1>15. Sleepers(t, q2, at2)
  <2>. SUFFICES ASSUME NEW d \in Ctx, t.status[d] \in Live, NEW i \in 1 .. Len(q2), q2[i] = t.pid[d]
                PROVE  /\ t.status[d] = "BLOCKED" /\ at2[d] = "inRead"
                       /\ \A j \in 1 .. Len(q2) : q2[j] = t.pid[d] => j = i
    BY DEF Sleepers
  <2>1. s.status[d] \in Live /\ t.pid[d] = s.pid[d]
    BY <1>4
  <2>2. CASE d = c
    <3>1. \A j \in 1 .. Len(q) : q[j] # s.pid[c]
      BY <1>0, <1>1, <1>12 DEF InQueue, Sleepers
    <3>. QED BY <1>4, <1>13, <2>1, <2>2, <3>1
  <2>3. CASE d # c
    <3>1. s.pid[d] # s.currentPid
      BY <1>0, <1>1, <2>1, <2>3, PidsDiffer
    <3>2. \A j \in 1 .. Len(q2) : q2[j] = s.pid[d] => j \in 1 .. Len(q) /\ q[j] = s.pid[d]
      BY <1>13, <3>1
    <3>3. /\ s.status[d] = "BLOCKED" /\ at[d] = "inRead"
          /\ \A j \in 1 .. Len(q2) : q2[j] = s.pid[d] => j = i
      BY <1>12, <2>1, <3>2 DEF InQueue, Sleepers
    <3>. QED BY <1>4, <2>1, <2>3, <3>3
  <2>. QED BY <2>2, <2>3
<1>16. Clean(t, q2, at2, sh)
  <2>. SUFFICES ASSUME Commanding(t, at2, sh) PROVE AllLive(t, q2)
    BY DEF Clean
  <2>1. c # sh
    BY <1>2, <1>4 DEF Commanding
  <2>2. Commanding(s, at, sh)
    BY <1>0, <1>4, <2>1 DEF Commanding
  <2>3. AllLive(s, q)
    BY <1>12, <2>2 DEF InQueue, Clean
  <2>4. t.status[c] \in Live /\ t.pid[c] = s.currentPid
    BY <1>0, <1>1, <1>2 DEF SameProcess, Live
  <2>. QED BY <1>4, <1>13, <2>3, <2>4 DEF AllLive
<1>17. Granting(t, at2) = Granting(s, at)
  <2>1. \A d \in Ctx : d # c => (t.status[d] \in {"READY", "RUNNING"} <=> s.status[d] \in {"READY", "RUNNING"})
    BY <1>4 DEF Live
  <2>. QED BY <1>0, <1>2, <1>4, <2>1 DEF Granting
<1>18. HasTokens(t, 0, size, at2, lost)
  BY <1>17 DEF Reading, HasTokens
<1>. QED
  BY <1>2, <1>10, <1>11, <1>13, <1>14, <1>15, <1>16, <1>18 DEF Reading, SemInOrder, InQueue

LEMMA TakenFields ==
    ASSUME NEW x, NEW y, DriverInv, TakesKey(Of(x, y, kb, taken))
    PROVE  /\ k' = x /\ sems' = y /\ kb'.size = IF kb.size = 0 THEN 0 ELSE kb.size - 1
           /\ \E char : Moves(pc, Me, After(Me, char), pc')
<1>. DEFINE o == Of(x, y, kb, taken)
            char == Ascii(Scancode(o))
            d    == [kb EXCEPT !.start = BufferIndex(kb, 1), !.size = @ - 1]
            key  == [byte |-> kb.buffer[kb.start], flip |-> ~ taken.flip]
<1>0. o.kb = kb /\ o.k = x /\ o.sems = y
  BY DEF Of
<1>1. Follows(TakeKey(o)) /\ Moves(pc, Me, After(Me, char), pc')
  BY DEF TakesKey, Goto, Moves
<1>2. k' = TakeKey(o).k /\ sems' = TakeKey(o).sems /\ kb' = TakeKey(o).kb
  BY <1>1 DEF Follows
<1>3. CASE kb.size = 0
  BY <1>0, <1>1, <1>2, <1>3 DEF TakeKey
<1>4. CASE kb.size # 0
  <2>1. TakeKey(o) = Of(x, y, d, key)
    BY <1>4, TakeKeyForm
  <2>2. d.size = kb.size - 1
    BY DEF DriverInv, Driver
  <2>. HIDE DEF d, key
  <2>3. k' = x /\ sems' = y /\ kb' = d
    BY <1>2, <2>1 DEF Of
  <2>. QED BY <1>1, <1>4, <2>2, <2>3
<1>. QED
  BY <1>3, <1>4

LEMMA EnqueueForm ==
    ASSUME NEW sem \in Semaphore, sem.active, NEW pid \in Pids
    PROVE  /\ Enqueue(sem, pid) \in Semaphore /\ Enqueue(sem, pid).active
           /\ Enqueue(sem, pid).waitQueue = Append(sem.waitQueue, pid)
           /\ Enqueue(sem, pid).counter = sem.counter
BY DEF Enqueue, Semaphore

LEMMA WaitTakes ==
    ASSUME NEW x, NEW y, NEW d, NEW e, y[KEYBOARD_SEM_ID].counter > 0,
           NEW m, m = [y EXCEPT ![KEYBOARD_SEM_ID].counter = @ - 1]
    PROVE  SemWait(Of(x, y, d, e), KEYBOARD_SEM_ID) = Of(x, m, d, e)
BY DEF SemWait, Of

LEMMA WaitQueues ==
    ASSUME NEW x, NEW y, NEW d, NEW e, ~ (y[KEYBOARD_SEM_ID].counter > 0),
           NEW m, m = [y EXCEPT ![KEYBOARD_SEM_ID] = Enqueue(@, x.currentPid)]
    PROVE  SemWait(Of(x, y, d, e), KEYBOARD_SEM_ID) = Of(BlockProcess(x, x.currentPid), m, d, e)
<1>. DEFINE o == Of(x, y, d, e)
            p == BlockProcess(x, x.currentPid)
            r == Enqueue(y[KEYBOARD_SEM_ID], x.currentPid)
<1>1. o.sems = y /\ o.k = x
  BY DEF Of
<1>2. SemWait(o, KEYBOARD_SEM_ID) = [o EXCEPT !.sems[KEYBOARD_SEM_ID] = r, !.k = p]
  BY <1>1 DEF SemWait
<1>. HIDE DEF p, r
<1>3. [o EXCEPT !.sems[KEYBOARD_SEM_ID] = r, !.k = p] = Of(p, m, d, e)
  <2>1. [o EXCEPT !.sems[KEYBOARD_SEM_ID] = r] = Of(x, m, d, e)
    BY DEF Of, r
  <2>2. [o EXCEPT !.sems[KEYBOARD_SEM_ID] = r, !.k = p]
            = [[o EXCEPT !.sems[KEYBOARD_SEM_ID] = r] EXCEPT !.k = p]
    BY DEF Of
  <2>3. [Of(x, m, d, e) EXCEPT !.k = p] = Of(p, m, d, e)
    BY DEF Of
  <2>. QED BY <2>1, <2>2, <2>3
<1>. QED
  BY <1>2, <1>3 DEF p

\* The shell knows itself by its pid.
LEMMA AfterLabel ==
    ASSUME NEW sh, World(k, pc, sh), NEW c \in Ctx, c = Me, NEW char
    PROVE  /\ c = sh => After(c, char) \in {"getchar", "yield", "command"}
           /\ c # sh => After(c, char) \in {"getchar", "exit"}
<1>1. c = sh <=> k.pid[c] = SHELL_PID
  <2>1. /\ Inv(k) /\ c # NULL /\ sh \in Ctx /\ k.pid[sh] = SHELL_PID /\ k.status[sh] \in Live
    BY SchedulerAssumption DEF World, ShellLives
  <2>2. k.status[c] \in Live \/ k.pid[c] \in Targets
    BY <2>1 DEF Inv, Common, Cpu, Roles, Live, Me
  <2>. QED BY <2>1, <2>2, PidsDiffer DEF Targets
<1>. QED
  BY <1>1 DEF After

ReadersInv(sh) == Reading(k, sems, kb.size, pc, tokenLost, sh)

\* What a reader that goes on does to the invariant, m being the semaphores
\* after sem_wait.
LEMMA TakesKeyKeeps ==
    ASSUME DriverInv, NEW sh, ReadersInv(sh), NEW m, TakesKey(Of(k, m, kb, taken)),
           UNCHANGED tokenLost,
           SemInOrder(m), Me \in Ctx,
           InQueue(k, m[KEYBOARD_SEM_ID].waitQueue, pc, sh),
           Me = sh => AllLive(k, m[KEYBOARD_SEM_ID].waitQueue),
           \/ /\ pc[Me] = "inRead"
              /\ m[KEYBOARD_SEM_ID].counter = sems[KEYBOARD_SEM_ID].counter
           \/ /\ pc[Me] = "getchar"
              /\ m[KEYBOARD_SEM_ID].counter + 1 >= sems[KEYBOARD_SEM_ID].counter
    PROVE  ReadersInv(sh)'
<1>. DEFINE c == Me
            n == sems[KEYBOARD_SEM_ID].counter
<1>1. /\ k' = k /\ sems' = m /\ kb'.size = IF kb.size = 0 THEN 0 ELSE kb.size - 1
      /\ \E char : Moves(pc, c, After(c, char), pc')
  BY TakenFields
<1>2. PICK char : Moves(pc, c, After(c, char), pc')
  BY <1>1
<1>. DEFINE label == After(c, char)
<1>3. /\ World(k, pc, sh) /\ DeadCat(k) /\ HasTokens(k, n, kb.size, pc, tokenLost)
      /\ n \in Nat /\ kb.size \in Nat
  <2>1. sems \in [SemIds -> Semaphore]
    BY DEF ReadersInv, Reading, SemInOrder
  <2>2. n \in Nat
    BY <2>1, KeyboardSem DEF Semaphore
  <2>. QED BY <2>2, DriverFields DEF ReadersInv, Reading, DriverInv
<1>4. /\ c = sh => label \in {"getchar", "yield", "command"}
      /\ c # sh => label \in {"getchar", "exit"}
  BY <1>3, AfterLabel
<1>5. /\ c \in Ctx /\ c = k.currentProcess /\ pc[c] \in {"getchar", "inRead"}
      /\ c = sh /\ label = "command" => AllLive(k, m[KEYBOARD_SEM_ID].waitQueue)
      /\ \/ pc[c] = "inRead" /\ m[KEYBOARD_SEM_ID].counter = n
         \/ pc[c] = "getchar" /\ m[KEYBOARD_SEM_ID].counter + 1 >= n
      /\ Moves(pc, c, label, pc')
  BY <1>2 DEF Me
<1>. HIDE DEF c, n, label
<1>6. ASSUME NEW at2, at2 = pc', NEW size2, size2 = kb'.size
      PROVE  Reading(k, m, size2, at2, tokenLost, sh)
  BY <1>1, <1>3, <1>4, <1>5, <1>6, ReaderGoesOn
<1>7. Reading(k, m, kb'.size, pc', tokenLost, sh)
  BY <1>6
<1>. QED
  BY <1>1, <1>7 DEF ReadersInv

LEMMA WakeInReadKeeps ==
    ASSUME DriverInv, NEW sh, ReadersInv(sh), WakeInRead
    PROVE  ReadersInv(sh)'
<1>1. /\ TakesKey(Of(k, sems, kb, taken)) /\ UNCHANGED tokenLost /\ pc[Me] = "inRead"
      /\ Me \in Ctx
  <2>1. Me # NULL /\ Inv(k)
    BY DEF WakeInRead, Running, ReadersInv, Reading, World
  <2>2. Me \in Ctx
    BY <2>1 DEF Inv, Common, Kernel, Me
  <2>. QED BY <2>2, HereIsOf DEF WakeInRead, Running
<1>2. /\ SemInOrder(sems) /\ InQueue(k, sems[KEYBOARD_SEM_ID].waitQueue, pc, sh)
  BY DEF ReadersInv, Reading
<1>3. Me = sh => AllLive(k, sems[KEYBOARD_SEM_ID].waitQueue)
  <2>1. Me = sh => k.status[sh] # "BLOCKED"
    BY <1>1, SchedulerAssumption DEF ReadersInv, Reading, World, Inv, Cpu, Me
  <2>. QED BY <1>1, <1>2, <2>1 DEF InQueue, Clean, Commanding
<1>. QED
  BY <1>1, <1>2, <1>3, TakesKeyKeeps

\* Taking a token changes one number of one semaphore.
CounterLess(x, i, y) == y = [x EXCEPT ![i].counter = @ - 1]

LEMMA OneTokenLess ==
    ASSUME NEW x \in [SemIds -> Semaphore], NEW i \in SemIds, x[i].counter > 0,
           NEW y, CounterLess(x, i, y)
    PROVE  /\ y \in [SemIds -> Semaphore] /\ y[i].active = x[i].active
           /\ y[i].counter = x[i].counter - 1 /\ y[i].waitQueue = x[i].waitQueue
<1>. DEFINE e == [x[i] EXCEPT !.counter = @ - 1]
<1>1. x[i] \in Semaphore /\ x[i].counter \in Nat
  BY DEF Semaphore
<1>2. x[i].counter - 1 \in Nat
  BY <1>1
<1>3. e \in Semaphore /\ e.active = x[i].active
      /\ e.counter = x[i].counter - 1 /\ e.waitQueue = x[i].waitQueue
  BY <1>1, <1>2 DEF Semaphore
<1>4. y = [x EXCEPT ![i] = e]
  BY DEF CounterLess
<1>. HIDE DEF e
<1>5. y \in [SemIds -> Semaphore] /\ y[i] = e
  BY <1>3, <1>4
<1>. QED BY <1>3, <1>5

LEMMA ReadKeyKeeps ==
    ASSUME DriverInv, NEW sh, ReadersInv(sh), ReadKey
    PROVE  ReadersInv(sh)'
<1>. DEFINE w == SemWait(Here, KEYBOARD_SEM_ID)
            n == sems[KEYBOARD_SEM_ID].counter
            q == sems[KEYBOARD_SEM_ID].waitQueue
            b == BlockProcess(k, k.currentPid)
            m == [sems EXCEPT ![KEYBOARD_SEM_ID].counter = @ - 1]
            p == [sems EXCEPT ![KEYBOARD_SEM_ID] = Enqueue(@, k.currentPid)]
<1>1. /\ Inv(k) /\ Me # NULL /\ Me \in Ctx /\ pc[Me] = "getchar" /\ UNCHANGED tokenLost
      /\ World(k, pc, sh) /\ DeadCat(k) /\ SemInOrder(sems) /\ InQueue(k, q, pc, sh)
      /\ kb.size \in Nat
  <2>1. Me # NULL /\ Inv(k)
    BY DEF ReadKey, Running, ReadersInv, Reading, World
  <2>2. Me \in Ctx
    BY <2>1 DEF Inv, Common, Kernel, Me
  <2>. QED BY <2>1, <2>2, DriverFields DEF ReadKey, Running, ReadersInv, Reading, DriverInv
<1>2. IF w.k.currentProcess = Me THEN TakesKey(w) ELSE Follows(w) /\ Goto("inRead")
  BY DEF ReadKey
<1>3. sems[KEYBOARD_SEM_ID] \in Semaphore /\ sems \in [SemIds -> Semaphore] /\ n \in Nat
  <2>1. sems \in [SemIds -> Semaphore]
    BY <1>1 DEF SemInOrder
  <2>. QED BY <2>1, KeyboardSem DEF Semaphore
<1>4. CASE n > 0
  <2>1. w = Of(k, m, kb, taken)
    <3>1. SemWait(Of(k, sems, kb, taken), KEYBOARD_SEM_ID) = Of(k, m, kb, taken)
      BY <1>4, WaitTakes
    <3>. QED BY <3>1, HereIsOf
  <2>2. TakesKey(Of(k, m, kb, taken))
    BY <1>2, <2>1 DEF Of, Me
  <2>3. q = << >>
    BY <1>1, <1>4 DEF SemInOrder
  <2>4. /\ m \in [SemIds -> Semaphore] /\ m[KEYBOARD_SEM_ID].active
        /\ m[KEYBOARD_SEM_ID].counter = n - 1 /\ m[KEYBOARD_SEM_ID].waitQueue = q
    <3>1. sems[KEYBOARD_SEM_ID].active
      BY <1>1 DEF SemInOrder
    <3>2. CounterLess(sems, KEYBOARD_SEM_ID, m)
      BY DEF CounterLess
    <3>. HIDE DEF m
    <3>. QED BY <1>3, <1>4, <3>1, <3>2, KeyboardSem, OneTokenLess
  <2>. HIDE DEF m
  <2>5. SemInOrder(m) /\ AllLive(k, q)
    BY <2>3, <2>4 DEF SemInOrder, AllLive
  <2>6. n - 1 + 1 >= n
    BY <1>3
  <2>. QED BY <1>1, <2>2, <2>4, <2>5, <2>6, TakesKeyKeeps
<1>5. CASE ~ (n > 0)
  <2>1. w = Of(b, p, kb, taken) /\ n = 0
    <3>1. SemWait(Of(k, sems, kb, taken), KEYBOARD_SEM_ID) = Of(b, p, kb, taken)
      BY <1>5, WaitQueues
    <3>2. n = 0
      BY <1>3, <1>5
    <3>. QED BY <3>1, <3>2, HereIsOf
  <2>2. CASE k.status[Me] = "TERMINATED"
    <3>1. b = k /\ InQueue(k, Append(q, k.currentPid), pc, sh) /\ Me # sh
      BY <1>1, <2>2, DeadQueues DEF Me
    <3>2. TakesKey(Of(k, p, kb, taken))
      BY <1>2, <2>1, <3>1 DEF Of, Me
    <3>3. k.currentPid \in Pids
      BY <1>1, <2>2 DEF Inv, Common, Cpu, Identity, Me
    <3>4. /\ Enqueue(sems[KEYBOARD_SEM_ID], k.currentPid) \in Semaphore
          /\ Enqueue(sems[KEYBOARD_SEM_ID], k.currentPid).waitQueue = Append(q, k.currentPid)
          /\ Enqueue(sems[KEYBOARD_SEM_ID], k.currentPid).counter = 0
          /\ Enqueue(sems[KEYBOARD_SEM_ID], k.currentPid).active
      <4>1. sems[KEYBOARD_SEM_ID].active
        BY <1>1 DEF SemInOrder
      <4>. QED BY <1>3, <2>1, <3>3, <4>1, EnqueueForm
    <3>5. /\ p \in [SemIds -> Semaphore] /\ p[KEYBOARD_SEM_ID].active
          /\ p[KEYBOARD_SEM_ID].counter = 0
          /\ p[KEYBOARD_SEM_ID].waitQueue = Append(q, k.currentPid)
      BY <1>3, <3>4, KeyboardSem
    <3>. HIDE DEF p, b
    <3>6. SemInOrder(p)
      BY <3>5 DEF SemInOrder
    <3>7. p[KEYBOARD_SEM_ID].counter + 1 >= n
      BY <2>1, <3>5
    <3>. QED BY <1>1, <3>1, <3>2, <3>5, <3>6, <3>7, TakesKeyKeeps
  <2>3. CASE k.status[Me] # "TERMINATED"
    <3>0. \E at2 : Moves(pc, Me, "inRead", at2)
      BY DEF Moves
    <3>1. ASSUME NEW at2, Moves(pc, Me, "inRead", at2)
          PROVE  Reading(b, p, kb.size, at2, tokenLost, sh) /\ b.currentProcess # Me
      <4>1. Reading(k, sems, kb.size, pc, tokenLost, sh)
        BY DEF ReadersInv
      <4>2. /\ b = BlockProcess(k, k.currentPid) /\ n = 0
            /\ Queues(sems, k.currentPid, p)
            /\ Me = k.currentProcess
        BY <2>1 DEF Me, Queues
      <4>. HIDE DEF p, b
      <4>. QED BY <1>1, <2>3, <3>1, <4>1, <4>2, ReaderSleeps
    <3>2. b.currentProcess # Me
      BY <3>0, <3>1
    <3>3. Follows(Of(b, p, kb, taken)) /\ Goto("inRead")
      BY <1>2, <2>1, <3>2 DEF Of
    <3>. HIDE DEF p, b
    <3>4. k' = b /\ sems' = p /\ kb' = kb
      BY <3>3 DEF Follows, Of
    <3>5. Moves(pc, Me, "inRead", pc')
      BY <3>3 DEF Goto, Moves
    <3>. QED BY <1>1, <3>1, <3>4, <3>5 DEF ReadersInv
  <2>. QED BY <2>2, <2>3
<1>. QED
  BY <1>3, <1>4, <1>5

-----------------------------------------------------------------------------
\* A context switch changes nothing about who reads what.
LEMMA TurnKeeps ==
    ASSUME NEW s, NEW m, NEW size, NEW at, NEW lost, NEW sh, Reading(s, m, size, at, lost, sh),
           NEW t, Inv(t), AtConsole(t), Turn(s, t)
    PROVE  Reading(t, m, size, at, lost, sh)
<1>. DEFINE q == m[KEYBOARD_SEM_ID].waitQueue
            n == m[KEYBOARD_SEM_ID].counter
<1>1. /\ World(s, at, sh) /\ DeadCat(s) /\ SemInOrder(m) /\ InQueue(s, q, at, sh)
      /\ HasTokens(s, n, size, at, lost)
  BY DEF Reading
<1>. HIDE DEF q, n
<1>2. World(t, at, sh) /\ DeadCat(t)
  BY <1>1, TurnWorld
<1>3. InQueue(t, q, at, sh) /\ Granting(t, at) = Granting(s, at)
  BY <1>1, TurnQueue
<1>4. HasTokens(t, n, size, at, lost)
  BY <1>1, <1>3 DEF HasTokens
<1>. QED
  BY <1>1, <1>2, <1>3, <1>4 DEF Reading, q, n

\* The shell, or a cat, goes back to its getchar.
LEMMA MoveKeeps ==
    ASSUME NEW s, NEW m, NEW size, NEW at, NEW lost, NEW sh, Reading(s, m, size, at, lost, sh),
           NEW c \in Ctx, c = s.currentProcess, at[c] \in {"yield", "command"},
           NEW at2, Moves(at, c, "getchar", at2)
    PROVE  Reading(s, m, size, at2, lost, sh) /\ c = sh
<1>. DEFINE q == m[KEYBOARD_SEM_ID].waitQueue
            n == m[KEYBOARD_SEM_ID].counter
            label == "getchar"
<1>1. /\ World(s, at, sh) /\ DeadCat(s) /\ SemInOrder(m) /\ InQueue(s, q, at, sh)
      /\ HasTokens(s, n, size, at, lost)
  BY DEF Reading
<1>2. c = sh
  BY <1>1 DEF World, Labels
<1>3. /\ label # "inRead" /\ label # "command" /\ Moves(at, c, label, at2)
      /\ label \in {"getchar", "inRead", "yield", "command", "wait"}
      /\ at[c] \notin {"wait", "none"} /\ at[c] # "inRead"
  OBVIOUS
<1>. HIDE DEF q, n, label
<1>4. World(s, at2, sh)
  BY <1>1, <1>2, <1>3, MoveWorld
<1>5. InQueue(s, q, at2, sh)
  BY <1>1, <1>2, <1>3, MoveQueue
<1>6. Granting(s, at2) = Granting(s, at)
  <2>1. DOMAIN at = Ctx
    BY <1>1 DEF World
  <2>2. Granting(s, at2) = Granting(s, at) \ {c}
    BY <1>3, <2>1, MoveGranting
  <2>. QED BY <1>3, <2>2 DEF Granting
<1>7. HasTokens(s, n, size, at2, lost)
  BY <1>1, <1>6 DEF HasTokens
<1>. QED
  BY <1>1, <1>2, <1>4, <1>5, <1>7 DEF Reading, q, n

LEMMA TickKeeps ==
    ASSUME NEW sh, ReadersInv(sh), Tick
    PROVE  ReadersInv(sh)'
<1>1. /\ k' = Schedule(k) /\ sems' = sems /\ kb' = kb /\ pc' = pc /\ tokenLost' = tokenLost
  BY DEF Tick, TimerTick
<1>. DEFINE t == Schedule(k)
<1>2. Inv(k) /\ AtConsole(k) /\ Mid(k)
  BY InvIsMid DEF ReadersInv, Reading, World
<1>3. Inv(t) /\ AtConsole(t) /\ Turn(k, t)
  BY <1>2, ScheduleInv, ConsoleSchedule, ScheduleTurn
<1>. HIDE DEF t
<1>4. Reading(t, sems, kb.size, pc, tokenLost, sh)
  BY <1>3, TurnKeeps DEF ReadersInv
<1>. QED
  BY <1>1, <1>4 DEF ReadersInv, t

LEMMA CurrentIsContext ==
    ASSUME NEW sh, ReadersInv(sh), NEW label, Running(label)
    PROVE  Me \in Ctx /\ Me = k.currentProcess /\ pc[Me] = label
<1>1. Me # NULL /\ k \in Kernel /\ pc[Me] = label
  BY DEF Running, ReadersInv, Reading, World, Inv, Common
<1>. QED
  BY <1>1 DEF Kernel, Me

LEMMA ShellYieldsKeeps ==
    ASSUME NEW sh, ReadersInv(sh), ShellYields
    PROVE  ReadersInv(sh)'
<1>. DEFINE t == Yield(k)
<1>1. k' = t /\ sems' = sems /\ kb' = kb /\ tokenLost' = tokenLost
      /\ Moves(pc, Me, "getchar", pc')
  <2>1. Here.k = k /\ Here = Of(k, sems, kb, taken)
    BY HereIsOf DEF Here
  <2>2. Follows([Here EXCEPT !.k = t]) /\ tokenLost' = tokenLost
        /\ Moves(pc, Me, "getchar", pc')
    BY <2>1 DEF ShellYields, Goto, Moves
  <2>. HIDE DEF t
  <2>. QED BY <2>1, <2>2 DEF Follows, Of
<1>2. Inv(k) /\ AtConsole(k) /\ Mid(k)
  BY InvIsMid DEF ReadersInv, Reading, World
<1>3. Inv(t) /\ AtConsole(t) /\ Turn(k, t)
  BY <1>2, YieldInv, ConsoleYield, YieldTurn
<1>. HIDE DEF t
<1>4. Running("yield")
  BY DEF ShellYields
<1>5. ASSUME NEW at2, at2 = pc' PROVE Reading(k, sems, kb.size, at2, tokenLost, sh)
  BY <1>1, <1>4, <1>5, CurrentIsContext, MoveKeeps DEF ReadersInv
<1>6. ASSUME NEW at2, at2 = pc' PROVE Reading(t, sems, kb.size, at2, tokenLost, sh)
  BY <1>3, <1>5, <1>6, TurnKeeps
<1>. QED
  BY <1>1, <1>6 DEF ReadersInv

LEMMA ShellRunsBuiltInKeeps ==
    ASSUME NEW sh, ReadersInv(sh), ShellRunsBuiltIn
    PROVE  ReadersInv(sh)'
<1>1. k' = k /\ sems' = sems /\ kb' = kb /\ tokenLost' = tokenLost
      /\ Moves(pc, Me, "getchar", pc') /\ Running("command")
  BY DEF ShellRunsBuiltIn, Goto, Moves
<1>2. ASSUME NEW at2, at2 = pc' PROVE Reading(k, sems, kb.size, at2, tokenLost, sh)
  BY <1>1, <1>2, CurrentIsContext, MoveKeeps DEF ReadersInv
<1>. QED
  BY <1>1, <1>2 DEF ReadersInv

-----------------------------------------------------------------------------
(***************************************************************************)
(* A key arrives.  sem_post purges the queue of the pids of the dead: who  *)
(* is left in it sleeps in getAscii, and the first one gets the token.     *)
(***************************************************************************)

UpTo(S, i) == Cardinality({h \in S : h <= i})

LEMMA NthProperty ==
    ASSUME NEW n \in Nat, NEW S, \A h \in S : h \in 1 .. n, NEW j \in 1 .. Cardinality(S)
    PROVE  Nth(S, j) \in S /\ UpTo(S, Nth(S, j)) = j
<1>1. \E i \in S : Cardinality({h \in S : h <= i}) = j
  BY NthExists
<1>2. Nth(S, j) = CHOOSE i \in S : Cardinality({h \in S : h <= i}) = j
  BY DEF Nth
<1>. QED
  BY <1>1, <1>2 DEF UpTo

\* What is left after the purge was there, each pid at a place of its own, and
\* some process has it.
LEMMA PurgedFrom ==
    ASSUME NEW s \in Kernel, NEW queue \in Seq(Pids)
    PROVE  /\ Len(Purge(s, queue)) \in Nat
           /\ \A j \in 1 .. Len(Purge(s, queue)) : FindProcess(s, Purge(s, queue)[j]) # NULL
           /\ \E f : \A j \in 1 .. Len(Purge(s, queue)) :
                /\ f[j] \in 1 .. Len(queue) /\ Purge(s, queue)[j] = queue[f[j]]
                /\ \A i \in 1 .. Len(Purge(s, queue)) : f[i] = f[j] => i = j
<1>. DEFINE kept == {i \in DOMAIN queue :
                        LET c == FindProcess(s, queue[i])
                        IN  c # NULL /\ s.status[c] # "TERMINATED"}
            n == Cardinality(kept)
            f == [j \in 1 .. n |-> Nth(kept, j)]
            p == Purge(s, queue)
<1>1. /\ \A h \in kept : h \in 1 .. Len(queue) /\ FindProcess(s, queue[h]) # NULL
      /\ Len(queue) \in Nat
  OBVIOUS
<1>2. IsFiniteSet(kept) /\ n \in Nat
  <2>. HIDE DEF kept
  <2>1. kept \in SUBSET (1 .. Len(queue)) /\ IsFiniteSet(1 .. Len(queue))
    BY <1>1, FS_Interval
  <2>. QED BY <2>1, FS_Subset, FS_CardinalityType
<1>3. p = [j \in 1 .. n |-> queue[Nth(kept, j)]]
  BY DEF Purge
<1>. HIDE DEF kept
<1>4. \A j \in 1 .. n : Nth(kept, j) \in kept /\ UpTo(kept, Nth(kept, j)) = j
  BY <1>1, NthProperty DEF n
<1>. HIDE DEF p, n
<1>5. DOMAIN p = 1 .. n /\ Len(p) = n /\ \A j \in 1 .. n : p[j] = queue[Nth(kept, j)]
  BY <1>2, <1>3
<1>6. \A j \in 1 .. n : /\ f[j] \in 1 .. Len(queue) /\ p[j] = queue[f[j]]
                        /\ \A i \in 1 .. n : f[i] = f[j] => i = j
  BY <1>1, <1>4, <1>5
<1>7. \A j \in 1 .. n : FindProcess(s, p[j]) # NULL
  BY <1>1, <1>4, <1>5
<1>. HIDE DEF f
<1>. QED
  BY <1>2, <1>5, <1>6, <1>7 DEF p

LEMMA PurgedQueue ==
    ASSUME NEW s, Inv(s), NEW q \in Seq(Pids), NEW at, Sleepers(s, q, at),
           NEW p, p = Purge(s, q)
    PROVE  /\ p \in Seq(Pids) /\ Sleepers(s, p, at) /\ AllLive(s, p)
           /\ q = << >> => p = << >>
<1>1. s \in Kernel
  BY DEF Inv, Common
<1>2. p \in Seq(Pids) /\ (q = << >> => p = << >>)
  BY PurgeProperty
<1>3. /\ \A j \in 1 .. Len(p) : FindProcess(s, p[j]) # NULL
      /\ \E f : \A j \in 1 .. Len(p) :
            /\ f[j] \in 1 .. Len(q) /\ p[j] = q[f[j]]
            /\ \A i \in 1 .. Len(p) : f[i] = f[j] => i = j
  BY <1>1, PurgedFrom
<1>4. PICK f : \A j \in 1 .. Len(p) :
            /\ f[j] \in 1 .. Len(q) /\ p[j] = q[f[j]]
            /\ \A i \in 1 .. Len(p) : f[i] = f[j] => i = j
  BY <1>3
<1>5. Sleepers(s, p, at)
  <2>. SUFFICES ASSUME NEW c \in Ctx, s.status[c] \in Live, NEW i \in 1 .. Len(p), p[i] = s.pid[c]
                PROVE  /\ s.status[c] = "BLOCKED" /\ at[c] = "inRead"
                       /\ \A j \in 1 .. Len(p) : p[j] = s.pid[c] => j = i
    BY DEF Sleepers
  <2>1. f[i] \in 1 .. Len(q) /\ q[f[i]] = s.pid[c]
    BY <1>4
  <2>2. /\ s.status[c] = "BLOCKED" /\ at[c] = "inRead"
        /\ \A j \in 1 .. Len(q) : q[j] = s.pid[c] => j = f[i]
    BY <2>1 DEF Sleepers
  <2>3. \A j \in 1 .. Len(p) : p[j] = s.pid[c] => f[j] = f[i]
    BY <1>4, <2>2
  <2>. QED BY <1>4, <2>2, <2>3
<1>6. AllLive(s, p)
  <2>. SUFFICES ASSUME NEW i \in 1 .. Len(p)
                PROVE  \E c \in Ctx : s.status[c] \in Live /\ s.pid[c] = p[i]
    BY DEF AllLive
  <2>. DEFINE d == FindProcess(s, p[i])
  <2>1. d \in Ctx /\ d \in ToSet(s.processList) /\ s.pid[d] = p[i]
    BY <1>1, <1>3, FindProcessProperty
  <2>2. s.status[d] \in Live
    BY <2>1 DEF Inv, Common, Lists
  <2>. QED BY <2>1, <2>2
<1>. QED
  BY <1>2, <1>5, <1>6

\* Somebody sleeps in getAscii and is woken.
LEMMA WokenWorld ==
    ASSUME NEW s, NEW at, NEW sh, World(s, at, sh), DeadCat(s),
           NEW c \in Ctx, s.status[c] = "BLOCKED", at[c] = "inRead",
           NEW t, t = SetReadyProcess(s, s.pid[c])
    PROVE  /\ World(t, at, sh) /\ DeadCat(t)
           /\ \A d \in Ctx : /\ t.pid[d] = s.pid[d]
                             /\ t.status[d] = IF d = c THEN "READY" ELSE s.status[d]
<1>0. Inv(s) /\ AtConsole(s) /\ sh \in Ctx
  BY DEF World, ShellLives
<1>1. /\ Inv(t) /\ t.fdIn = s.fdIn /\ t.fdOut = s.fdOut
      /\ \A d \in Ctx : /\ t.pid[d] = s.pid[d] /\ t.ground[d] = s.ground[d]
                        /\ t.waitingList[d] = s.waitingList[d]
                        /\ t.status[d] = IF d = c THEN "READY" ELSE s.status[d]
  BY <1>0, WaiterTurns DEF SameProcess
<1>2. AtConsole(t)
  BY <1>0, <1>1 DEF AtConsole
<1>3. \A d \in Ctx : /\ t.status[d] \in Live <=> s.status[d] \in Live
                     /\ t.status[d] = "TERMINATED" <=> s.status[d] = "TERMINATED"
                     /\ t.status[d] = "FREED" <=> s.status[d] = "FREED"
  BY <1>1 DEF Live
<1>4. ShellLives(t, at, sh) /\ Labels(t, at, sh)
  BY <1>0, <1>1, <1>3 DEF World, ShellLives, Labels
<1>5. Waiting(t, at, sh)
  <2>1. at[sh] = "getchar" => t.status[sh] = s.status[sh]
    BY <1>0, <1>1
  <2>. QED BY <1>0, <1>1, <1>3, <2>1 DEF World, Waiting
<1>6. Foreground(t, at, sh)
  <2>1. \A d \in Ctx : IsCat(t, sh, d) <=> IsCat(s, sh, d)
    BY <1>1, <1>3 DEF IsCat
  <2>. QED BY <1>1, <1>3, <2>1 DEF World, Foreground
<1>7. Unclaimed(t) /\ DeadCat(t)
  BY <1>1, <1>3 DEF World, Unclaimed, DeadCat
<1>8. World(t, at, sh)
  BY <1>0, <1>1, <1>2, <1>4, <1>5, <1>6, <1>7 DEF World
<1>. QED
  BY <1>1, <1>7, <1>8

LEMMA TailPlaces ==
    ASSUME NEW S, NEW p \in Seq(S), p # << >>
    PROVE  /\ Tail(p) \in Seq(S) /\ Head(p) = p[1] /\ 1 \in 1 .. Len(p)
           /\ \A i \in 1 .. Len(Tail(p)) : i + 1 \in 1 .. Len(p) /\ Tail(p)[i] = p[i + 1]
                                          /\ i \in Nat /\ i + 1 # 1
OBVIOUS

\* What sem_post does to the semaphore of the keyboard when p is what the purge
\* leaves of its queue.
Handed(m, p, m2) ==
    m2 = [m EXCEPT ![KEYBOARD_SEM_ID] = [m[KEYBOARD_SEM_ID] EXCEPT !.waitQueue = Tail(p)]]

Kept(m, p, m2) ==
    m2 = [m EXCEPT ![KEYBOARD_SEM_ID] = [m[KEYBOARD_SEM_ID] EXCEPT !.waitQueue = p,
                                                                   !.counter = @ + 1]]

LEMMA KeptForm ==
    ASSUME NEW m \in [SemIds -> Semaphore], NEW p \in Seq(Pids), NEW m2, Kept(m, p, m2)
    PROVE  /\ m2 \in [SemIds -> Semaphore]
           /\ m2[KEYBOARD_SEM_ID].active = m[KEYBOARD_SEM_ID].active
           /\ m2[KEYBOARD_SEM_ID].counter = m[KEYBOARD_SEM_ID].counter + 1
           /\ m2[KEYBOARD_SEM_ID].waitQueue = p
<1>. DEFINE x == m[KEYBOARD_SEM_ID]
            y == [x EXCEPT !.waitQueue = p, !.counter = @ + 1]
<1>1. x \in Semaphore /\ KEYBOARD_SEM_ID \in SemIds
  BY KeyboardSem
<1>. HIDE DEF x
<1>2. y \in Semaphore /\ y.active = x.active /\ y.counter = x.counter + 1 /\ y.waitQueue = p
  <2>. DEFINE z == [x EXCEPT !.waitQueue = p]
  <2>1. z \in Semaphore /\ z.active = x.active /\ z.counter = x.counter /\ z.waitQueue = p
    BY <1>1 DEF Semaphore
  <2>2. y = [z EXCEPT !.counter = z.counter + 1]
    OBVIOUS
  <2>. HIDE DEF z, y
  <2>. QED BY <2>1, <2>2 DEF Semaphore
<1>3. m2 = [m EXCEPT ![KEYBOARD_SEM_ID] = y]
  BY DEF Kept, x
<1>. HIDE DEF y
<1>4. m2 \in [SemIds -> Semaphore] /\ m2[KEYBOARD_SEM_ID] = y
  BY <1>1, <1>2, <1>3
<1>. QED
  BY <1>2, <1>4 DEF x

LEMMA HandedForm ==
    ASSUME NEW m \in [SemIds -> Semaphore], NEW p \in Seq(Pids), p # << >>,
           NEW m2, Handed(m, p, m2)
    PROVE  /\ m2 \in [SemIds -> Semaphore]
           /\ m2[KEYBOARD_SEM_ID].active = m[KEYBOARD_SEM_ID].active
           /\ m2[KEYBOARD_SEM_ID].counter = m[KEYBOARD_SEM_ID].counter
           /\ m2[KEYBOARD_SEM_ID].waitQueue = Tail(p)
<1>. DEFINE x == m[KEYBOARD_SEM_ID]
            y == [x EXCEPT !.waitQueue = Tail(p)]
<1>1. x \in Semaphore /\ KEYBOARD_SEM_ID \in SemIds /\ Tail(p) \in Seq(Pids)
  BY KeyboardSem
<1>. HIDE DEF x
<1>2. y \in Semaphore /\ y.active = x.active /\ y.counter = x.counter /\ y.waitQueue = Tail(p)
  BY <1>1 DEF Semaphore
<1>3. m2 = [m EXCEPT ![KEYBOARD_SEM_ID] = y]
  BY DEF Handed, x
<1>. HIDE DEF y
<1>4. m2 \in [SemIds -> Semaphore] /\ m2[KEYBOARD_SEM_ID] = y
  BY <1>1, <1>2, <1>3
<1>. QED
  BY <1>2, <1>4 DEF x

LEMMA PostForms ==
    ASSUME NEW s, NEW m, NEW d, NEW e, NEW p, p = Purge(s, m[KEYBOARD_SEM_ID].waitQueue),
           NEW r, r = SemPost(Of(s, m, d, e), KEYBOARD_SEM_ID)
    PROVE  /\ p # << >> => r.k = SetReadyProcess(s, Head(p)) /\ Handed(m, p, r.sems)
           /\ p = << >> => r.k = s /\ Kept(m, p, r.sems)
<1>1. ASSUME p # << >> PROVE r.k = SetReadyProcess(s, Head(p)) /\ Handed(m, p, r.sems)
  BY <1>1 DEF SemPost, Of, Handed
<1>2. ASSUME p = << >> PROVE r.k = s /\ Kept(m, p, r.sems)
  BY <1>2 DEF SemPost, Of, Kept
<1>. QED
  BY <1>1, <1>2


LEMMA TailQueue ==
    ASSUME NEW s, NEW at, NEW sh, NEW p \in Seq(Pids), p # << >>,
           Sleepers(s, p, at), AllLive(s, p),
           NEW c \in Ctx, s.status[c] \in Live, s.pid[c] = p[1],
           NEW t, \A d \in Ctx : /\ t.pid[d] = s.pid[d]
                                 /\ t.status[d] = IF d = c THEN "READY" ELSE s.status[d]
    PROVE  InQueue(t, Tail(p), at, sh)
<1>. DEFINE q == Tail(p)
<1>1. /\ q \in Seq(Pids) /\ 1 \in 1 .. Len(p)
      /\ \A i \in 1 .. Len(q) : i + 1 \in 1 .. Len(p) /\ q[i] = p[i + 1] /\ i \in Nat /\ i + 1 # 1
  BY TailPlaces
<1>. HIDE DEF q
<1>2. \A d \in Ctx : /\ t.status[d] \in Live <=> s.status[d] \in Live
                     /\ t.pid[d] = s.pid[d]
                     /\ d # c => t.status[d] = s.status[d]
  BY DEF Live
<1>3. Sleepers(t, q, at)
  <2>. SUFFICES ASSUME NEW d \in Ctx, t.status[d] \in Live, NEW i \in 1 .. Len(q), q[i] = t.pid[d]
                PROVE  /\ t.status[d] = "BLOCKED" /\ at[d] = "inRead"
                       /\ \A j \in 1 .. Len(q) : q[j] = t.pid[d] => j = i
    BY DEF Sleepers
  <2>1. s.status[d] \in Live /\ i + 1 \in 1 .. Len(p) /\ p[i + 1] = s.pid[d]
    BY <1>1, <1>2
  <2>2. /\ s.status[d] = "BLOCKED" /\ at[d] = "inRead"
        /\ \A j \in 1 .. Len(p) : p[j] = s.pid[d] => j = i + 1
    BY <2>1 DEF Sleepers
  <2>3. d # c
    BY <1>1, <2>2
  <2>4. \A j \in 1 .. Len(q) : q[j] = t.pid[d] => j = i
    <3>. SUFFICES ASSUME NEW j \in 1 .. Len(q), q[j] = t.pid[d] PROVE j = i
      OBVIOUS
    <3>1. j + 1 \in 1 .. Len(p) /\ p[j + 1] = s.pid[d] /\ i \in Nat /\ j \in Nat
      BY <1>1, <1>2
    <3>2. j + 1 = i + 1
      BY <2>2, <3>1
    <3>. QED BY <3>1, <3>2
  <2>. QED BY <1>2, <2>2, <2>3, <2>4
<1>4. AllLive(t, q)
  BY <1>1, <1>2 DEF AllLive
<1>. QED
  BY <1>1, <1>3, <1>4 DEF InQueue, Clean, q

LEMMA OneMoreGranted ==
    ASSUME NEW s, NEW at, NEW c \in Ctx, s.status[c] = "BLOCKED", at[c] = "inRead",
           NEW t, \A d \in Ctx : t.status[d] = IF d = c THEN "READY" ELSE s.status[d]
    PROVE  Cardinality(Granting(t, at)) = Cardinality(Granting(s, at)) + 1
<1>. DEFINE S == Granting(s, at)
<1>1. Granting(t, at) = S \cup {c} /\ c \notin S
  BY DEF Granting
<1>2. IsFiniteSet(S)
  BY GrantingFinite
<1>. HIDE DEF S
<1>3. Cardinality(S \cup {c}) = Cardinality(S) + 1
  BY <1>1, <1>2, FS_AddElement
<1>. QED
  BY <1>1, <1>3 DEF S

LEMMA OneMoreKey ==
    ASSUME NEW s, NEW at, NEW t, NEW n \in Nat, NEW n2 \in Nat, NEW size \in Nat, NEW lost,
           HasTokens(s, n, size, at, lost),
           n2 + Cardinality(Granting(t, at)) = n + Cardinality(Granting(s, at)) + 1
    PROVE  HasTokens(t, n2, size + 1, at, lost)
<1>. DEFINE x == Cardinality(Granting(s, at))
            y == Cardinality(Granting(t, at))
<1>1. x \in Nat /\ y \in Nat
  BY GrantingFinite
<1>2. n2 + y = n + x + 1 /\ (~ lost => size <= n + x)
  BY DEF HasTokens
<1>. HIDE DEF x, y
<1>3. ~ lost => size + 1 <= n2 + y
  BY <1>1, <1>2
<1>. QED
  BY <1>3 DEF HasTokens, y

LEMMA PostKeeps ==
    ASSUME NEW s, NEW m, NEW size \in Nat, NEW at, NEW lost, NEW sh,
           Reading(s, m, size, at, lost, sh), NEW d, NEW e,
           NEW r, r = SemPost(Of(s, m, d, e), KEYBOARD_SEM_ID)
    PROVE  Reading(r.k, r.sems, size + 1, at, lost, sh)
<1>. DEFINE q == m[KEYBOARD_SEM_ID].waitQueue
            n == m[KEYBOARD_SEM_ID].counter
            p == Purge(s, q)
<1>1. /\ World(s, at, sh) /\ DeadCat(s) /\ SemInOrder(m) /\ InQueue(s, q, at, sh)
      /\ HasTokens(s, n, size, at, lost)
  BY DEF Reading
<1>2. /\ m \in [SemIds -> Semaphore] /\ m[KEYBOARD_SEM_ID].active /\ n \in Nat
      /\ n > 0 => q = << >>
  BY <1>1, KeyboardSem DEF SemInOrder, Semaphore
<1>3. /\ p # << >> => r.k = SetReadyProcess(s, Head(p)) /\ Handed(m, p, r.sems)
      /\ p = << >> => r.k = s /\ Kept(m, p, r.sems)
  BY PostForms
<1>4. Inv(s) /\ q \in Seq(Pids) /\ Sleepers(s, q, at)
  BY <1>1 DEF World, InQueue
<1>. HIDE DEF q, n
<1>5. p \in Seq(Pids) /\ Sleepers(s, p, at) /\ AllLive(s, p) /\ (q = << >> => p = << >>)
  BY <1>4, PurgedQueue
<1>. HIDE DEF p
<1>. DEFINE m2 == r.sems
            t  == r.k
<1>. HIDE DEF m2, t
<1>6. CASE p # << >>
  <2>1. t = SetReadyProcess(s, Head(p)) /\ Handed(m, p, m2) /\ n = 0
    BY <1>2, <1>3, <1>5, <1>6 DEF m2, t
  <2>2. /\ m2 \in [SemIds -> Semaphore] /\ m2[KEYBOARD_SEM_ID].active
        /\ m2[KEYBOARD_SEM_ID].counter = n /\ m2[KEYBOARD_SEM_ID].waitQueue = Tail(p)
    BY <1>2, <1>5, <1>6, <2>1, HandedForm DEF n
  <2>3. Head(p) = p[1] /\ 1 \in 1 .. Len(p)
    BY <1>5, <1>6, TailPlaces
  <2>4. PICK c \in Ctx : s.status[c] \in Live /\ s.pid[c] = p[1]
    BY <1>5, <2>3 DEF AllLive
  <2>5. s.status[c] = "BLOCKED" /\ at[c] = "inRead"
    BY <1>5, <2>3, <2>4 DEF Sleepers
  <2>6. t = SetReadyProcess(s, s.pid[c])
    BY <2>1, <2>3, <2>4
  <2>7. /\ World(t, at, sh) /\ DeadCat(t)
        /\ \A x \in Ctx : /\ t.pid[x] = s.pid[x]
                          /\ t.status[x] = IF x = c THEN "READY" ELSE s.status[x]
    BY <1>1, <2>5, <2>6, WokenWorld
  <2>8. InQueue(t, Tail(p), at, sh)
    BY <1>5, <1>6, <2>4, <2>7, TailQueue
  <2>9. Cardinality(Granting(t, at)) = Cardinality(Granting(s, at)) + 1
    BY <2>5, <2>7, OneMoreGranted
  <2>10. HasTokens(t, n, size + 1, at, lost)
    <3>1. n + Cardinality(Granting(t, at)) = n + Cardinality(Granting(s, at)) + 1
      BY <1>2, <2>9, GrantingFinite
    <3>. QED BY <1>1, <1>2, <3>1, OneMoreKey
  <2>11. SemInOrder(m2)
    BY <2>1, <2>2 DEF SemInOrder
  <2>12. Reading(t, m2, size + 1, at, lost, sh)
    BY <2>2, <2>7, <2>8, <2>10, <2>11 DEF Reading
  <2>. QED BY <2>12 DEF t, m2
<1>7. CASE p = << >>
  <2>1. t = s /\ Kept(m, p, m2)
    BY <1>3, <1>7 DEF m2, t
  <2>2. /\ m2 \in [SemIds -> Semaphore] /\ m2[KEYBOARD_SEM_ID].active
        /\ m2[KEYBOARD_SEM_ID].counter = n + 1 /\ m2[KEYBOARD_SEM_ID].waitQueue = p
    BY <1>2, <1>5, <2>1, KeptForm DEF n
  <2>3. InQueue(t, p, at, sh)
    BY <1>5, <2>1 DEF InQueue, Clean
  <2>4. HasTokens(t, n + 1, size + 1, at, lost)
    <3>1. n + 1 + Cardinality(Granting(t, at)) = n + Cardinality(Granting(s, at)) + 1
      BY <1>2, <2>1, GrantingFinite
    <3>. QED BY <1>1, <1>2, <3>1, OneMoreKey
  <2>5. SemInOrder(m2)
    BY <1>7, <2>2 DEF SemInOrder
  <2>6. Reading(t, m2, size + 1, at, lost, sh)
    BY <1>1, <2>1, <2>2, <2>3, <2>4, <2>5 DEF Reading
  <2>. QED BY <2>6 DEF t, m2
<1>. QED
  BY <1>6, <1>7


-----------------------------------------------------------------------------
(***************************************************************************)
(* A cat dies.  What a kill leaves: only the shell may wait for it.        *)
(***************************************************************************)
Dies(s, at, sh, c, t) ==
    /\ Inv(t) /\ AtConsole(t) /\ t.currentProcess = s.currentProcess
    /\ t.status[c] = IF s.currentProcess = c THEN "TERMINATED" ELSE "FREED"
    /\ s.currentProcess = c => SameProcess(s, t, c)
    /\ \A d \in Ctx \ {c} :
        /\ SameProcess(s, t, d)
        /\ \/ t.status[d] = s.status[d]
           \/ /\ d = sh /\ at[sh] = "getchar" /\ sh \in ToSet(s.waitingList[c])
              /\ s.status[sh] = "BLOCKED" /\ t.status[sh] = "READY"

LEMMA KillLeaves ==
    ASSUME NEW s, NEW at, NEW sh, World(s, at, sh), NEW c \in Ctx, c # sh,
           s.status[c] \in Live, s.pid[c] \in Targets, NEW t \in Kill(s, c)
    PROVE  Dies(s, at, sh, c, t)
<1>1. Inv(s) /\ AtConsole(s) /\ sh \in Ctx /\ s.status[sh] \in Live
  BY DEF World, ShellLives
<1>2. \A w \in ToSet(s.waitingList[c]) : w = sh /\ at[sh] = "getchar"
  BY DEF World, Waiting
<1>3. /\ Inv(t) /\ t.currentProcess = s.currentProcess
      /\ t.status[c] = IF s.currentProcess = c THEN "TERMINATED" ELSE "FREED"
      /\ s.currentProcess = c => SameProcess(s, t, c)
      /\ \A d \in Ctx \ {c} :
            /\ SameProcess(s, t, d)
            /\ t.status[d] = IF /\ d = sh /\ s.status[sh] = "BLOCKED"
                                /\ sh \in ToSet(s.waitingList[c])
                             THEN "READY" ELSE s.status[d]
      /\ AtConsole(t)
  BY <1>1, <1>2, Killed
<1>. QED
  BY <1>2, <1>3 DEF Dies

LEMMA KillWorld ==
    ASSUME NEW s, NEW at, NEW sh, World(s, at, sh), NEW c \in Ctx, c # sh,
           s.status[c] \in Live, NEW t, Dies(s, at, sh, c, t)
    PROVE  /\ World(t, at, sh)
           /\ DeadCat(s) /\ (s.currentProcess = c => s.ground[c] = FOREGROUND) => DeadCat(t)
<1>0. Inv(s) /\ sh \in Ctx /\ s.status[sh] \in Live /\ DOMAIN at = Ctx
  BY DEF World, ShellLives
<1>1. /\ Inv(t) /\ AtConsole(t)
      /\ t.status[c] \in {"TERMINATED", "FREED"}
      /\ t.status[c] = "TERMINATED" => /\ s.currentProcess = c /\ t.pid[c] = s.pid[c]
                                       /\ t.ground[c] = s.ground[c]
  BY DEF Dies, SameProcess
<1>2. \A d \in Ctx \ {c} :
        /\ t.pid[d] = s.pid[d] /\ t.ground[d] = s.ground[d] /\ t.waitingList[d] = s.waitingList[d]
        /\ \/ t.status[d] = s.status[d]
           \/ /\ d = sh /\ at[sh] = "getchar" /\ sh \in ToSet(s.waitingList[c])
              /\ s.status[sh] = "BLOCKED" /\ t.status[sh] = "READY"
  BY DEF Dies, SameProcess
<1>3. \A d \in Ctx : /\ t.status[d] \in Live => d # c /\ s.status[d] \in Live
                     /\ t.status[d] = "TERMINATED" => d = c \/ s.status[d] = "TERMINATED"
                     /\ d # c /\ d # sh => t.status[d] = s.status[d]
  BY <1>0, <1>1, <1>2 DEF Live
<1>4. ShellLives(t, at, sh)
  BY <1>0, <1>2 DEF World, ShellLives, Live
<1>5. Labels(t, at, sh)
  BY <1>2, <1>3 DEF World, Labels
<1>6. Waiting(t, at, sh)
  <2>. SUFFICES ASSUME NEW d \in Ctx, t.status[d] \in Live, NEW w \in ToSet(t.waitingList[d])
                PROVE  /\ w = sh /\ d # sh /\ t.status[sh] = "BLOCKED" /\ at[sh] = "getchar"
                       /\ \A e \in Ctx : t.status[e] \in Live /\ sh \in ToSet(t.waitingList[e]) => e = d
    BY DEF Waiting
  <2>1. d # c /\ s.status[d] \in Live /\ t.waitingList[d] = s.waitingList[d]
    BY <1>2, <1>3
  <2>2. /\ w = sh /\ d # sh /\ s.status[sh] = "BLOCKED" /\ at[sh] = "getchar"
        /\ \A e \in Ctx : s.status[e] \in Live /\ sh \in ToSet(s.waitingList[e]) => e = d
    BY <2>1 DEF World, Waiting
  <2>3. t.status[sh] = "BLOCKED"
    <3>1. ~ (sh \in ToSet(s.waitingList[c]))
      BY <2>1, <2>2
    <3>. QED BY <1>0, <1>2, <2>2, <3>1
  <2>4. \A e \in Ctx : t.status[e] \in Live /\ sh \in ToSet(t.waitingList[e]) => e = d
    BY <1>2, <1>3, <2>2
  <2>. QED BY <2>2, <2>3, <2>4
<1>7. Foreground(t, at, sh)
  <2>1. \A d \in Ctx : IsCat(t, sh, d) => IsCat(s, sh, d)
    <3>. SUFFICES ASSUME NEW d \in Ctx, IsCat(t, sh, d) PROVE IsCat(s, sh, d)
      OBVIOUS
    <3>1. CASE d = c
      BY <1>1, <3>1 DEF IsCat, Live
    <3>2. CASE d # c
      BY <1>2, <1>3, <3>2 DEF IsCat
    <3>. QED BY <3>1, <3>2
  <2>. SUFFICES ASSUME NEW d \in Ctx, IsCat(t, sh, d)
                PROVE  /\ \A e \in Ctx : IsCat(t, sh, e) => e = d
                       /\ \/ at[sh] = "wait"
                          \/ /\ at[sh] = "getchar"
                             /\ t.status[d] = "TERMINATED" \/ sh \in ToSet(t.waitingList[d])
    BY DEF Foreground
  <2>2. /\ \A e \in Ctx : IsCat(s, sh, e) => e = d
        /\ \/ at[sh] = "wait"
           \/ /\ at[sh] = "getchar"
              /\ s.status[d] = "TERMINATED" \/ sh \in ToSet(s.waitingList[d])
    BY <2>1 DEF World, Foreground
  <2>3. d # sh /\ t.status[d] # "FREED"
    BY DEF IsCat
  <2>4. d = c => t.status[d] = "TERMINATED"
    BY <1>1, <2>3
  <2>5. d # c => t.status[d] = s.status[d] /\ t.waitingList[d] = s.waitingList[d]
    BY <1>2, <1>3, <2>3
  <2>. QED BY <2>1, <2>2, <2>4, <2>5
<1>8. Unclaimed(t)
  <2>. SUFFICES ASSUME NEW d \in Ctx, t.status[d] = "TERMINATED", NEW e \in Ctx, t.status[e] \in Live
                PROVE  t.pid[e] # t.pid[d]
    BY DEF Unclaimed
  <2>1. e # c /\ s.status[e] \in Live /\ t.pid[e] = s.pid[e]
    BY <1>2, <1>3
  <2>2. CASE d = c
    <3>1. t.pid[d] = s.pid[c]
      BY <1>1, <2>2
    <3>2. s.pid[e] # s.pid[c]
      BY <1>0, <2>1, PidsDiffer
    <3>. QED BY <2>1, <3>1, <3>2
  <2>3. CASE d # c
    <3>1. s.status[d] = "TERMINATED" /\ t.pid[d] = s.pid[d]
      BY <1>2, <1>3, <2>3
    <3>. QED BY <2>1, <3>1 DEF World, Unclaimed
  <2>. QED BY <2>2, <2>3
<1>9. ASSUME DeadCat(s), s.currentProcess = c => s.ground[c] = FOREGROUND PROVE DeadCat(t)
  <2>. SUFFICES ASSUME NEW d \in Ctx, t.status[d] = "TERMINATED" PROVE t.ground[d] = FOREGROUND
    BY DEF DeadCat
  <2>1. CASE d = c
    BY <1>1, <1>9, <2>1
  <2>2. CASE d # c
    BY <1>2, <1>3, <1>9, <2>2 DEF DeadCat
  <2>. QED BY <2>1, <2>2
<1>10. World(t, at, sh)
  BY <1>0, <1>1, <1>4, <1>5, <1>6, <1>7, <1>8 DEF World
<1>. QED
  BY <1>9, <1>10

LEMMA KillQueue ==
    ASSUME NEW s, NEW at, NEW sh, World(s, at, sh), NEW c \in Ctx, c # sh,
           s.status[c] \in Live, NEW t, Dies(s, at, sh, c, t),
           NEW q, InQueue(s, q, at, sh),
           at[sh] \in {"getchar", "wait"} \/ \A i \in 1 .. Len(q) : q[i] # s.pid[c]
    PROVE  InQueue(t, q, at, sh)
<1>0. sh \in Ctx
  BY DEF World, ShellLives
<1>1. \A d \in Ctx : t.status[d] \in Live => d # c
  BY DEF Dies, Live
<1>2. \A d \in Ctx \ {c} :
        /\ t.pid[d] = s.pid[d]
        /\ t.status[d] \in Live <=> s.status[d] \in Live
        /\ at[d] = "inRead" => t.status[d] = s.status[d]
  BY DEF Dies, SameProcess, Live
<1>3. Sleepers(t, q, at)
  BY <1>1, <1>2 DEF InQueue, Sleepers
<1>4. Clean(t, q, at, sh)
  <2>. SUFFICES ASSUME Commanding(t, at, sh) PROVE AllLive(t, q)
    BY DEF Clean
  <2>1. Commanding(s, at, sh)
    BY <1>0, <1>2 DEF Commanding
  <2>2. AllLive(s, q) /\ \A i \in 1 .. Len(q) : q[i] # s.pid[c]
    BY <2>1 DEF InQueue, Clean, Commanding
  <2>. QED BY <1>2, <2>2 DEF AllLive
<1>. QED
  BY <1>3, <1>4 DEF InQueue

LEMMA KillGranting ==
    ASSUME NEW s, NEW at, NEW sh, World(s, at, sh), NEW c \in Ctx, NEW t, Dies(s, at, sh, c, t)
    PROVE  Granting(t, at) = Granting(s, at) \ {c}
<1>1. t.status[c] \notin {"READY", "RUNNING"}
  BY DEF Dies
<1>2. \A d \in Ctx \ {c} : at[d] = "inRead" => t.status[d] = s.status[d]
  BY DEF Dies
<1>. QED
  BY <1>1, <1>2 DEF Granting


\* Nobody's token is lost, or it is known to be, or there are no keys.
LEMMA KillTokens ==
    ASSUME NEW s, NEW t, NEW at, NEW n \in Nat, NEW size \in Nat, NEW lost,
           HasTokens(s, n, size, at, lost), NEW c, Granting(t, at) = Granting(s, at) \ {c},
           NEW size2, NEW lost2, size2 = 0 \/ (size2 = size /\ (lost => lost2)),
           size2 = 0 \/ c \notin Granting(s, at) \/ lost2
    PROVE  HasTokens(t, n, size2, at, lost2)
<1>. DEFINE y == Cardinality(Granting(t, at))
<1>1. y \in Nat
  BY GrantingFinite
<1>2. CASE size2 = 0
  <2>. HIDE DEF y
  <2>1. size2 <= n + y
    BY <1>1, <1>2
  <2>. QED BY <2>1 DEF HasTokens, y
<1>3. CASE ~ lost2 /\ size2 # 0
  <2>1. Granting(t, at) = Granting(s, at) /\ size2 = size /\ ~ lost
    BY <1>3
  <2>. QED BY <2>1 DEF HasTokens
<1>4. CASE lost2
  BY <1>4 DEF HasTokens
<1>. QED
  BY <1>2, <1>3, <1>4

LEMMA KillKeeps ==
    ASSUME NEW s, NEW m, NEW size \in Nat, NEW at, NEW lost, NEW sh,
           Reading(s, m, size, at, lost, sh), NEW c \in Ctx, c # sh,
           s.status[c] \in Live, s.pid[c] \in Targets, NEW t \in Kill(s, c),
           s.currentProcess = c => s.ground[c] = FOREGROUND,
           at[sh] \in {"getchar", "wait"},
           NEW size2, NEW lost2, size2 = 0 \/ (size2 = size /\ (lost => lost2)),
           size2 = 0 \/ c \notin Granting(s, at) \/ lost2
    PROVE  Reading(t, m, size2, at, lost2, sh)
<1>. DEFINE q == m[KEYBOARD_SEM_ID].waitQueue
            n == m[KEYBOARD_SEM_ID].counter
<1>1. /\ World(s, at, sh) /\ DeadCat(s) /\ SemInOrder(m) /\ InQueue(s, q, at, sh)
      /\ HasTokens(s, n, size, at, lost)
  BY DEF Reading
<1>2. n \in Nat
  BY <1>1, KeyboardSem DEF SemInOrder, Semaphore
<1>. HIDE DEF q, n
<1>3. Dies(s, at, sh, c, t)
  BY <1>1, KillLeaves
<1>4. World(t, at, sh) /\ DeadCat(t)
  BY <1>1, <1>3, KillWorld
<1>5. InQueue(t, q, at, sh)
  BY <1>1, <1>3, KillQueue
<1>6. Granting(t, at) = Granting(s, at) \ {c}
  BY <1>1, <1>3, KillGranting
<1>7. HasTokens(t, n, size2, at, lost2)
  BY <1>1, <1>2, <1>6, KillTokens
<1>. QED
  BY <1>1, <1>4, <1>5, <1>7 DEF Reading, q, n

LEMMA KillsNobody ==
    ASSUME NEW s, NEW at, NEW sh, World(s, at, sh), NEW c \in Ctx, s.status[c] = "TERMINATED"
    PROVE  KillProcess(s, s.pid[c]) = {s}
<1>1. s \in Kernel /\ Lists(s)
  BY DEF World, Inv, Common
<1>2. FindProcess(s, s.pid[c]) = NULL
  <2>. SUFFICES ASSUME FindProcess(s, s.pid[c]) # NULL PROVE FALSE
    OBVIOUS
  <2>. DEFINE d == FindProcess(s, s.pid[c])
  <2>1. d \in Ctx /\ d \in ToSet(s.processList) /\ s.pid[d] = s.pid[c]
    BY <1>1, FindProcessProperty
  <2>2. s.status[d] \in Live
    BY <1>1, <2>1 DEF Lists
  <2>. QED BY <2>1, <2>2 DEF World, Unclaimed
<1>. QED
  BY <1>2 DEF KillProcess

\* Ctrl+C kills a cat in the foreground, or nobody.
LEMMA CtrlCVictim ==
    ASSUME NEW s, NEW at, NEW sh, World(s, at, sh), NEW t \in KillForegroundProcess(s)
    PROVE  \/ t = s
           \/ \E c \in Ctx : /\ c # sh /\ s.status[c] \in Live /\ s.pid[c] \in Targets
                             /\ t \in Kill(s, c) /\ s.ground[c] = FOREGROUND
                             /\ at[sh] \in {"getchar", "wait"}
<1>0. /\ Inv(s) /\ AtConsole(s) /\ s \in Kernel /\ Lists(s) /\ Roles(s) /\ Identity(s) /\ Cpu(s)
      /\ sh \in Ctx /\ s.pid[sh] = SHELL_PID
  BY DEF World, ShellLives, Inv, Common
<1>1. ASSUME NEW c \in Ctx, IsForeground(s, c), s.status[c] \in Live
      PROVE  /\ c # sh /\ s.pid[c] \in Targets /\ s.ground[c] = FOREGROUND
             /\ at[sh] \in {"getchar", "wait"}
  <2>1. s.ground[c] = FOREGROUND /\ s.pid[c] # SHELL_PID /\ c # sh
    BY <1>0, <1>1 DEF IsForeground
  <2>2. s.pid[c] \in Pids /\ s.pid[c] # IDLE_PID
    <3>1. s.status[c] # "FREED" /\ FOREGROUND # BACKGROUND
      BY <1>1 DEF Live, FOREGROUND, BACKGROUND
    <3>2. s.pid[c] \in Pids
      BY <1>0, <3>1 DEF Identity
    <3>3. s.pid[c] = IDLE_PID => s.ground[c] = BACKGROUND
      BY <1>0, <1>1 DEF Roles
    <3>. QED BY <2>1, <3>1, <3>2, <3>3
  <2>3. IsCat(s, sh, c)
    BY <1>1, <2>1 DEF IsCat, Live
  <2>. QED BY <2>1, <2>2, <2>3 DEF World, Foreground, Targets
<1>. DEFINE c == s.currentProcess
            first == FirstIn(s.processList, {d \in Ctx : IsForeground(s, d)})
<1>2. CASE c # NULL /\ IsForeground(s, c)
  <2>1. c \in Ctx /\ s.status[c] \in {"RUNNING", "TERMINATED"}
    BY <1>0, <1>2 DEF Kernel, Cpu
  <2>2. t \in KillProcess(s, s.pid[c])
    BY <1>2 DEF KillForegroundProcess
  <2>3. CASE s.status[c] = "TERMINATED"
    BY <2>1, <2>2, <2>3, KillsNobody
  <2>4. CASE s.status[c] = "RUNNING"
    <3>1. s.status[c] \in Live
      BY <2>4 DEF Live
    <3>2. /\ c # sh /\ s.pid[c] \in Targets /\ s.ground[c] = FOREGROUND
          /\ at[sh] \in {"getchar", "wait"}
      BY <1>1, <1>2, <2>1, <3>1
    <3>3. t \in Kill(s, c)
      BY <1>0, <2>1, <2>2, <3>1, <3>2, KillsOnly DEF Targets
    <3>. QED BY <2>1, <3>1, <3>2, <3>3
  <2>. QED BY <2>1, <2>3, <2>4
<1>3. CASE c # NULL /\ ~ IsForeground(s, c) /\ first # NULL
  <2>1. t \in Kill(s, first)
    BY <1>3 DEF KillForegroundProcess
  <2>2. first \in ToSet(s.processList) /\ first \in {d \in Ctx : IsForeground(s, d)}
    <3>1. s.processList \in Seq(Ctx)
      BY <1>0 DEF Kernel
    <3>. QED BY <1>3, <3>1, FirstInProperty
  <2>. HIDE DEF first
  <2>3. first \in Ctx /\ IsForeground(s, first) /\ s.status[first] \in Live
    BY <1>0, <2>2 DEF Lists
  <2>4. /\ first # sh /\ s.pid[first] \in Targets /\ s.ground[first] = FOREGROUND
        /\ at[sh] \in {"getchar", "wait"}
    BY <1>1, <2>3
  <2>. QED BY <2>1, <2>3, <2>4
<1>4. CASE c = NULL \/ (~ IsForeground(s, c) /\ first = NULL)
  BY <1>4 DEF KillForegroundProcess
<1>. QED
  BY <1>2, <1>3, <1>4


LEMMA HandlerKeeps ==
    ASSUME NEW s, NEW m, NEW at, NEW lost, NEW sh, NEW d \in Driver,
           Reading(s, m, d.size, at, lost, sh), NEW t, NEW key \in Keys,
           NEW o \in KeyboardHandler(Of(s, m, d, t), key)
    PROVE  Reading(o.k, o.sems, o.kb.size, at, lost, sh)
<1>0. d.size \in Nat
  BY KeysInProperty
<1>1. CASE o = Of(s, m, d, t)
  BY <1>1 DEF Of
<1>2. ASSUME NEW e, Shifts(d, e), o = Of(s, m, e, t)
      PROVE  Reading(o.k, o.sems, o.kb.size, at, lost, sh)
  <2>1. e.size = d.size
    BY <1>2 DEF Shifts, Driver
  <2>. QED BY <1>2, <2>1 DEF Of
<1>3. ASSUME NEW e, NEW x, Drops(d, e), x \in KillForegroundProcess(s), o = Of(x, m, e, t)
      PROVE  Reading(o.k, o.sems, o.kb.size, at, lost, sh)
  <2>1. e.size = 0
    BY <1>3 DEF Drops, Driver
  <2>2. World(s, at, sh)
    BY DEF Reading
  <2>3. ASSUME NEW zero, zero = 0 PROVE Reading(x, m, zero, at, lost, sh)
    <3>1. CASE x = s
      <4>. DEFINE n == m[KEYBOARD_SEM_ID].counter
                  y == Cardinality(Granting(s, at))
      <4>1. n \in Nat /\ y \in Nat
        BY KeyboardSem, GrantingFinite DEF Reading, SemInOrder, Semaphore
      <4>. HIDE DEF n, y
      <4>2. zero <= n + y
        BY <2>3, <4>1
      <4>. QED BY <3>1, <4>2 DEF Reading, HasTokens, n, y
    <3>2. ASSUME NEW c \in Ctx, c # sh, s.status[c] \in Live, s.pid[c] \in Targets,
                 x \in Kill(s, c), s.ground[c] = FOREGROUND, at[sh] \in {"getchar", "wait"}
          PROVE  Reading(x, m, zero, at, lost, sh)
      BY <1>0, <2>3, <3>2, KillKeeps
    <3>. QED BY <1>3, <2>2, <3>1, <3>2, CtrlCVictim
  <2>. QED BY <1>3, <2>1, <2>3 DEF Of
<1>4. ASSUME NEW char \in Keys, HasRoom(d), o = WriteKey(Of(s, m, d, t), char)
      PROVE  Reading(o.k, o.sems, o.kb.size, at, lost, sh)
  <2>1. ASSUME NEW e, Puts(d, char, e), o = SemPost(Of(s, m, e, t), KEYBOARD_SEM_ID)
        PROVE  Reading(o.k, o.sems, o.kb.size, at, lost, sh)
    <3>1. o.kb = e
      BY <2>1, SemPostKeepsBuffer
    <3>2. e.size = d.size + 1
      BY <2>1 DEF Puts, Driver
    <3>3. Reading(o.k, o.sems, d.size + 1, at, lost, sh)
      BY <1>0, <2>1, PostKeeps
    <3>. QED BY <3>1, <3>2, <3>3
  <2>. QED BY <1>1, <1>4, <2>1, WriteKeyForm
<1>. QED
  BY <1>1, <1>2, <1>3, <1>4, HandlerForms

LEMMA KeyInterruptKeeps ==
    ASSUME DriverInv, NEW sh, ReadersInv(sh), KeyInterrupt
    PROVE  ReadersInv(sh)'
<1>0. PICK key \in KeyCodes : \E o \in KeyboardHandler(Here, key) : Follows(o)
  BY DEF KeyInterrupt
<1>1. PICK o \in KeyboardHandler(Here, key) : Follows(o)
  BY <1>0
<1>2. key \in Keys
  BY KeyReadersAssumption
<1>3. Reading(k, sems, kb.size, pc, tokenLost, sh)
  BY DEF ReadersInv
<1>4. Reading(o.k, o.sems, o.kb.size, pc, tokenLost, sh)
  BY <1>1, <1>2, <1>3, HereIsOf, HandlerKeeps DEF DriverInv
<1>5. k' = o.k /\ sems' = o.sems /\ kb' = o.kb /\ pc' = pc /\ tokenLost' = tokenLost
  BY <1>1 DEF Follows, KeyInterrupt
<1>. QED
  BY <1>4, <1>5 DEF ReadersInv


\* The command kill: the shell is not the one that dies.
LEMMA ShellKillsCatKeeps ==
    ASSUME DriverInv, NEW sh, ReadersInv(sh), ShellKillsCat
    PROVE  ReadersInv(sh)'
<1>0. PICK pid \in Targets : LET c == FindProcess(k, pid) IN
        /\ c # NULL
        /\ k' \in KillProcess(k, pid)
        /\ tokenLost' = (tokenLost \/ (pc[c] = "inRead" /\ k.status[c] = "READY"))
  BY DEF ShellKillsCat
<1>. DEFINE c == FindProcess(k, pid)
<1>1. /\ c # NULL /\ k' \in KillProcess(k, pid)
      /\ tokenLost' = (tokenLost \/ (pc[c] = "inRead" /\ k.status[c] = "READY"))
      /\ sems' = sems /\ kb' = kb /\ Running("command") /\ Moves(pc, Me, "getchar", pc')
  BY <1>0 DEF ShellKillsCat, Goto, Moves
<1>2. /\ Reading(k, sems, kb.size, pc, tokenLost, sh) /\ World(k, pc, sh)
      /\ Inv(k) /\ AtConsole(k) /\ k \in Kernel /\ Lists(k) /\ Cpu(k)
      /\ k.pid[sh] = SHELL_PID /\ sh \in Ctx /\ DOMAIN pc = Ctx
  BY DEF ReadersInv, Reading, World, Inv, Common, ShellLives
<1>3. Me \in Ctx /\ Me = k.currentProcess /\ pc[Me] = "command"
  BY <1>1, CurrentIsContext
<1>4. ASSUME NEW at2, at2 = pc' PROVE Reading(k, sems, kb.size, at2, tokenLost, sh) /\ Me = sh
  BY <1>1, <1>2, <1>3, <1>4, MoveKeeps
<1>5. /\ c \in Ctx /\ k.status[c] \in Live /\ k.pid[c] = pid /\ c # sh /\ pid # IDLE_PID
  <2>1. c \in Ctx /\ c \in ToSet(k.processList) /\ k.pid[c] = pid
    BY <1>1, <1>2, FindProcessProperty
  <2>. QED BY <1>2, <2>1 DEF Lists, Targets
<1>. HIDE DEF c
<1>6. ASSUME NEW t, t = k' PROVE t \in Kill(k, c)
  BY <1>1, <1>2, <1>5, <1>6, KillsOnly
<1>7. k.currentProcess # c /\ k.status[c] # "RUNNING"
  BY <1>2, <1>3, <1>4, <1>5 DEF Cpu
<1>8. kb.size \in Nat
  BY KeysInProperty DEF DriverInv
<1>9. ASSUME NEW at2, at2 = pc', NEW t, t = k', NEW lost2, lost2 = tokenLost'
      PROVE  Reading(t, sems, kb.size, at2, lost2, sh)
  <2>1. at2[sh] = "getchar"
    BY <1>1, <1>2, <1>4, <1>9 DEF Moves
  <2>2. c \in Granting(k, at2) => lost2
    BY <1>1, <1>2, <1>4, <1>5, <1>7, <1>9 DEF Granting, Moves
  <2>3. Reading(k, sems, kb.size, at2, tokenLost, sh) /\ t \in Kill(k, c)
    BY <1>4, <1>6, <1>9
  <2>4. tokenLost => lost2
    BY <1>1, <1>9
  <2>. QED BY <1>5, <1>7, <1>8, <2>1, <2>2, <2>3, <2>4, KillKeeps
<1>. QED
  BY <1>1, <1>9 DEF ReadersInv

\* exit, also of a cat that Ctrl+C killed while it ran: the yield that follows
\* frees the context.
LEMMA ExitMoves ==
    ASSUME NEW s, NEW m, NEW size, NEW at, NEW lost, NEW sh, Reading(s, m, size, at, lost, sh),
           NEW c \in Ctx, c = s.currentProcess, c # sh, at[c] = "exit",
           NEW at2, Moves(at, c, "none", at2)
    PROVE  Reading(s, m, size, at2, lost, sh)
<1>. DEFINE q == m[KEYBOARD_SEM_ID].waitQueue
            n == m[KEYBOARD_SEM_ID].counter
            label == "none"
<1>1. /\ World(s, at, sh) /\ DeadCat(s) /\ SemInOrder(m) /\ InQueue(s, q, at, sh)
      /\ HasTokens(s, n, size, at, lost)
  BY DEF Reading
<1>2. /\ label # "inRead" /\ label # "command" /\ Moves(at, c, label, at2)
      /\ label \in {"getchar", "inRead", "exit", "none"}
      /\ at[c] \notin {"wait", "none"} /\ at[c] # "inRead"
  OBVIOUS
<1>. HIDE DEF q, n, label
<1>3. World(s, at2, sh)
  BY <1>1, <1>2, MoveWorld
<1>4. InQueue(s, q, at2, sh)
  BY <1>1, <1>2, MoveQueue
<1>5. Granting(s, at2) = Granting(s, at)
  <2>1. DOMAIN at = Ctx
    BY <1>1 DEF World
  <2>2. Granting(s, at2) = Granting(s, at) \ {c}
    <3>1. label # "inRead" /\ Moves(at, c, label, at2)
      BY <1>2
    <3>. QED BY <2>1, <3>1, MoveGranting
  <2>. QED BY <1>2, <2>2 DEF Granting
<1>6. HasTokens(s, n, size, at2, lost)
  BY <1>1, <1>5 DEF HasTokens
<1>. QED
  BY <1>1, <1>3, <1>4, <1>6 DEF Reading, q, n

LEMMA ExitKeeps ==
    ASSUME NEW s, NEW m, NEW size, NEW at, NEW lost, NEW sh, Reading(s, m, size, at, lost, sh),
           NEW c \in Ctx, c = s.currentProcess, c # sh, at[c] = "none", s.pid[c] \in Targets,
           NEW t \in KillProcess(s, s.pid[c]), NEW u, u = Yield(t)
    PROVE  Reading(u, m, size, at, lost, sh)
<1>. DEFINE q == m[KEYBOARD_SEM_ID].waitQueue
            n == m[KEYBOARD_SEM_ID].counter
<1>1. /\ World(s, at, sh) /\ DeadCat(s) /\ SemInOrder(m) /\ InQueue(s, q, at, sh)
      /\ HasTokens(s, n, size, at, lost)
  BY DEF Reading
<1>2. Inv(s) /\ AtConsole(s) /\ s.status[c] \in {"RUNNING", "TERMINATED"}
  BY <1>1, SchedulerAssumption DEF World, Inv, Cpu
<1>3. ASSUME Inv(t), AtConsole(t) PROVE Inv(u) /\ AtConsole(u) /\ Turn(t, u)
  <2>1. Mid(t)
    BY <1>3, InvIsMid
  <2>. QED BY <1>3, <2>1, YieldInv, ConsoleYield, YieldTurn
<1>. HIDE DEF q, n
<1>4. CASE s.status[c] = "TERMINATED"
  <2>1. t = s
    BY <1>1, <1>4, KillsNobody
  <2>2. Inv(u) /\ AtConsole(u) /\ Turn(s, u)
    BY <1>2, <1>3, <2>1
  <2>. QED BY <2>2, TurnKeeps
<1>5. CASE s.status[c] = "RUNNING"
  <2>1. s.status[c] \in Live /\ s.pid[c] # IDLE_PID
    BY <1>5 DEF Live, Targets
  <2>2. t \in Kill(s, c)
    BY <1>2, <2>1, KillsOnly
  <2>3. Dies(s, at, sh, c, t)
    BY <1>1, <2>1, <2>2, KillLeaves
  <2>4. World(t, at, sh)
    BY <1>1, <2>1, <2>3, KillWorld
  <2>5. \A i \in 1 .. Len(q) : q[i] # s.pid[c]
    BY <1>1, <1>5, <2>1 DEF InQueue, Sleepers
  <2>6. InQueue(t, q, at, sh)
    BY <1>1, <2>1, <2>3, <2>5, KillQueue
  <2>7. Granting(t, at) = Granting(s, at)
    <3>1. Granting(t, at) = Granting(s, at) \ {c}
      BY <1>1, <2>3, KillGranting
    <3>. QED BY <3>1 DEF Granting
  <2>8. Inv(u) /\ AtConsole(u) /\ Turn(t, u)
    BY <1>3, <2>4 DEF World
  <2>9. World(u, at, sh)
    BY <2>4, <2>8, TurnWorld
  <2>10. InQueue(u, q, at, sh) /\ Granting(u, at) = Granting(t, at)
    BY <2>4, <2>6, <2>8, TurnQueue
  <2>11. HasTokens(u, n, size, at, lost)
    BY <1>1, <2>7, <2>10 DEF HasTokens
  <2>12. DeadCat(u)
    <3>1. c = t.currentProcess /\ t.status[c] = "TERMINATED" /\ Inv(t)
      BY <2>3 DEF Dies
    <3>2. u.status[c] = "FREED"
      BY <3>1, YieldOverDead
    <3>3. \A d \in Ctx : u.status[d] = "TERMINATED" => d = c
      BY <2>8, <3>1 DEF Turn, Stays, Inv, Cpu
    <3>. QED BY <3>2, <3>3 DEF DeadCat
  <2>. QED BY <1>1, <2>9, <2>10, <2>11, <2>12 DEF Reading, q, n
<1>. QED
  BY <1>2, <1>4, <1>5

LEMMA CatExitsKeeps ==
    ASSUME NEW sh, ReadersInv(sh), CatExits
    PROVE  ReadersInv(sh)'
<1>1. /\ Running("exit") /\ Moves(pc, Me, "none", pc') /\ k.currentPid \in Targets
      /\ sems' = sems /\ kb' = kb /\ tokenLost' = tokenLost
      /\ \E t \in KillProcess(k, k.pid[k.currentProcess]) : k' = Yield(t)
  BY DEF CatExits, SyscallExit, Goto, Moves
<1>2. PICK t \in KillProcess(k, k.pid[k.currentProcess]) : k' = Yield(t)
  BY <1>1
<1>3. Me \in Ctx /\ Me = k.currentProcess /\ pc[Me] = "exit"
  BY <1>1, CurrentIsContext
<1>4. Reading(k, sems, kb.size, pc, tokenLost, sh) /\ k.pid[sh] = SHELL_PID /\ Cpu(k)
      /\ DOMAIN pc = Ctx
  BY DEF ReadersInv, Reading, World, Inv, ShellLives
<1>5. k.pid[Me] \in Targets /\ Me # sh
  <2>1. k.currentPid = k.pid[Me]
    BY <1>3, <1>4, SchedulerAssumption DEF Cpu
  <2>. QED BY <1>1, <1>4, <2>1 DEF Targets
<1>6. ASSUME NEW at2, at2 = pc', NEW u, u = k'
      PROVE  Reading(u, sems, kb.size, at2, tokenLost, sh)
  <2>1. Reading(k, sems, kb.size, at2, tokenLost, sh)
    BY <1>1, <1>3, <1>4, <1>5, <1>6, ExitMoves
  <2>2. at2[Me] = "none" /\ u = Yield(t)
    BY <1>1, <1>2, <1>3, <1>4, <1>6 DEF Moves
  <2>. QED BY <1>2, <1>3, <1>5, <2>1, <2>2, ExitKeeps
<1>. QED
  BY <1>1, <1>6 DEF ReadersInv


-----------------------------------------------------------------------------
(***************************************************************************)
(* The shell starts a cat and waits for it.                                *)
(***************************************************************************)

\* Where the programs are when the shell, at at[sh], has started the cat in c.
Starts(at, c, sh, ground, at2) ==
    at2 = [at EXCEPT ![c]  = "getchar",
                     ![sh] = IF ground = FOREGROUND THEN "wait" ELSE "getchar"]

LEMMA StartMoves ==
    ASSUME NEW at, DOMAIN at = Ctx, NEW c \in Ctx, NEW sh \in Ctx, c # sh, NEW ground,
           NEW at2, Starts(at, c, sh, ground, at2)
    PROVE  /\ DOMAIN at2 = Ctx /\ at2[c] = "getchar"
           /\ at2[sh] = IF ground = FOREGROUND THEN "wait" ELSE "getchar"
           /\ \A d \in Ctx \ {c, sh} : at2[d] = at[d]
BY DEF Starts

\* Nobody sleeps on the semaphore under the pid that is the smallest one free:
\* the shell found the queue without the pids of the dead when it got the key
\* that ended the line.
LEMMA FreshPid ==
    ASSUME NEW s, s \in Kernel, Lists(s), NEW q, AllLive(s, q), NEW pid, IsMinFreePid(s, pid)
    PROVE  \A i \in 1 .. Len(q) : q[i] # pid
<1>1. \A d \in ToSet(s.processList) : s.pid[d] # pid
  BY FindProcessProperty DEF IsMinFreePid
<1>2. \A d \in Ctx : s.status[d] \in Live => s.pid[d] # pid
  BY <1>1 DEF Lists
<1>. QED
  BY <1>2 DEF AllLive

LEMMA StartWorld ==
    ASSUME NEW s, NEW at, NEW sh, World(s, at, sh), sh = s.currentProcess, at[sh] = "command",
           NEW c \in Ctx, s.status[c] = "FREED", NEW pid \in Pids, pid # IDLE_PID,
           NEW ground,
           NEW at2, Starts(at, c, sh, ground, at2),
           NEW t, Inv(t), AtConsole(t), t.status[c] = "READY", t.pid[c] = pid,
           t.ground[c] = ground, t.waitingList[c] = << >>,
           \A d \in Ctx : d # c => t.status[d] = s.status[d] /\ SameProcess(s, t, d)
    PROVE  World(t, at2, sh) /\ DeadCat(t)
<1>0. /\ Inv(s) /\ sh \in Ctx /\ s.status[sh] \in Live /\ s.pid[sh] = SHELL_PID /\ DOMAIN at = Ctx
      /\ c # sh
  BY DEF World, ShellLives, Live
<1>1. /\ DOMAIN at2 = Ctx /\ at2[c] = "getchar"
      /\ at2[sh] = IF ground = FOREGROUND THEN "wait" ELSE "getchar"
      /\ \A d \in Ctx \ {c, sh} : at2[d] = at[d]
  BY <1>0, StartMoves
<1>2. Undead(s) /\ s.status[sh] = "RUNNING"
  BY <1>0, RunningAlone
<1>3. \A d \in Ctx : t.status[d] # "TERMINATED"
  BY <1>2 DEF Undead
<1>4. \A d \in Ctx : d # c => /\ t.status[d] = s.status[d] /\ t.pid[d] = s.pid[d]
                             /\ t.ground[d] = s.ground[d] /\ t.waitingList[d] = s.waitingList[d]
  BY DEF SameProcess
<1>5. ShellLives(t, at2, sh)
  BY <1>0, <1>1, <1>4 DEF ShellLives
<1>6. Labels(t, at2, sh)
  BY <1>0, <1>1, <1>4 DEF World, Labels
<1>7. Waiting(t, at2, sh)
  <2>1. \A d \in Ctx : s.status[d] \in Live => ToSet(s.waitingList[d]) = {}
    BY <1>2 DEF World, Waiting
  <2>2. \A d \in Ctx : t.status[d] \in Live => ToSet(t.waitingList[d]) = {}
    <3>1. ToSet(<< >>) = {}
      BY DEF ToSet
    <3>. QED BY <1>4, <2>1, <3>1
  <2>. QED BY <2>2 DEF Waiting
<1>8. Foreground(t, at2, sh)
  <2>1. \A d \in Ctx : ~ IsCat(s, sh, d)
    BY DEF World, Foreground
  <2>2. \A d \in Ctx : IsCat(t, sh, d) => d = c /\ ground = FOREGROUND
    <3>1. \A d \in Ctx : d # c /\ IsCat(t, sh, d) => IsCat(s, sh, d)
      BY <1>4 DEF IsCat
    <3>2. IsCat(t, sh, c) => ground = FOREGROUND
      BY DEF IsCat
    <3>. QED BY <2>1, <3>1, <3>2
  <2>. QED BY <1>1, <2>2 DEF Foreground
<1>9. Unclaimed(t) /\ DeadCat(t)
  BY <1>3 DEF Unclaimed, DeadCat
<1>. QED
  BY <1>1, <1>5, <1>6, <1>7, <1>8, <1>9 DEF World

LEMMA StartGranting ==
    ASSUME NEW s, NEW at, NEW sh, World(s, at, sh), at[sh] = "command",
           NEW c \in Ctx, s.status[c] = "FREED", NEW ground,
           NEW at2, Starts(at, c, sh, ground, at2),
           NEW t, \A d \in Ctx : d # c => t.status[d] = s.status[d] /\ SameProcess(s, t, d)
    PROVE  Granting(t, at2) = Granting(s, at)
<1>1. sh \in Ctx /\ DOMAIN at = Ctx /\ c # sh
  BY DEF World, ShellLives, Live
<1>2. /\ at2[c] = "getchar" /\ at2[sh] # "inRead"
      /\ \A d \in Ctx \ {c, sh} : at2[d] = at[d]
  BY <1>1, StartMoves
<1>3. \A d \in Ctx : at2[d] = "inRead" /\ t.status[d] \in {"READY", "RUNNING"}
                       <=> at[d] = "inRead" /\ s.status[d] \in {"READY", "RUNNING"}
  BY <1>1, <1>2
<1>. QED
  BY <1>3 DEF Granting

LEMMA StartQueue ==
    ASSUME NEW s, NEW at, NEW sh, World(s, at, sh), at[sh] = "command",
           NEW q, InQueue(s, q, at, sh),
           NEW c \in Ctx, s.status[c] = "FREED", NEW pid \in Pids, IsMinFreePid(s, pid),
           NEW ground, NEW at2, Starts(at, c, sh, ground, at2),
           NEW t, t.pid[c] = pid,
           \A d \in Ctx : d # c => t.status[d] = s.status[d] /\ SameProcess(s, t, d)
    PROVE  InQueue(t, q, at2, sh)
<1>0. /\ s \in Kernel /\ Lists(s) /\ sh \in Ctx /\ DOMAIN at = Ctx /\ c # sh
  BY DEF World, ShellLives, Live, Inv, Common
<1>1. /\ at2[sh] # "command" /\ at2[sh] # "inRead"
      /\ \A d \in Ctx \ {c, sh} : at2[d] = at[d]
  BY <1>0, StartMoves
<1>2. \A i \in 1 .. Len(q) : q[i] # pid
  BY <1>0, FreshPid DEF InQueue, Clean, Commanding
<1>3. Sleepers(t, q, at2)
  <2>. SUFFICES ASSUME NEW d \in Ctx, t.status[d] \in Live, NEW i \in 1 .. Len(q), q[i] = t.pid[d]
                PROVE  /\ t.status[d] = "BLOCKED" /\ at2[d] = "inRead"
                       /\ \A j \in 1 .. Len(q) : q[j] = t.pid[d] => j = i
    BY DEF Sleepers
  <2>1. d # c
    BY <1>2
  <2>2. t.status[d] = s.status[d] /\ t.pid[d] = s.pid[d]
    BY <2>1 DEF SameProcess
  <2>3. /\ s.status[d] = "BLOCKED" /\ at[d] = "inRead"
        /\ \A j \in 1 .. Len(q) : q[j] = s.pid[d] => j = i
    BY <2>2 DEF InQueue, Sleepers
  <2>4. d # sh
    BY <2>3
  <2>. QED BY <1>1, <2>1, <2>2, <2>3, <2>4
<1>4. Clean(t, q, at2, sh)
  BY <1>1 DEF Clean, Commanding
<1>. QED
  BY <1>3, <1>4 DEF InQueue

LEMMA ShellStartsCatKeeps ==
    ASSUME NEW sh, ReadersInv(sh), NEW ground \in Grounds, ShellStartsCat(ground)
    PROVE  ReadersInv(sh)'
<1>1. PICK c \in Ctx, pid \in Pids :
        /\ k.status[c] = "FREED" /\ IsMinFreePid(k, pid)
        /\ k' = CreateProcess(k, c, pid, ConsoleProgram(ground))
        /\ pc' = [pc EXCEPT ![c]  = "getchar",
                            ![Me] = IF ground = FOREGROUND THEN "wait" ELSE "getchar"]
  BY DEF ShellStartsCat, ConsoleProgram
<1>2. Running("command") /\ sems' = sems /\ kb' = kb /\ tokenLost' = tokenLost
  BY DEF ShellStartsCat
<1>3. Me \in Ctx /\ Me = k.currentProcess /\ pc[Me] = "command"
  BY <1>2, CurrentIsContext
<1>. DEFINE q == sems[KEYBOARD_SEM_ID].waitQueue
            n == sems[KEYBOARD_SEM_ID].counter
<1>4. /\ World(k, pc, sh) /\ SemInOrder(sems) /\ InQueue(k, q, pc, sh)
      /\ HasTokens(k, n, kb.size, pc, tokenLost) /\ Inv(k) /\ AtConsole(k)
  BY DEF ReadersInv, Reading, World
<1>5. Me = sh
  BY <1>3, <1>4 DEF World, Labels
<1>. HIDE DEF q, n
<1>6. ASSUME NEW at2, at2 = pc', NEW t, t = k'
      PROVE  Reading(t, sems, kb.size, at2, tokenLost, sh)
  <2>1. Starts(pc, c, sh, ground, at2)
    BY <1>1, <1>5, <1>6 DEF Starts
  <2>2. /\ Inv(t) /\ AtConsole(t)
        /\ t.status[c] = "READY" /\ t.pid[c] = pid /\ pid # IDLE_PID
        /\ t.ground[c] = ground /\ t.waitingList[c] = << >>
        /\ \A d \in Ctx : d # c => t.status[d] = k.status[d] /\ SameProcess(k, t, d)
    BY <1>1, <1>4, <1>6, ConsoleCreated
  <2>3. World(t, at2, sh) /\ DeadCat(t)
    BY <1>1, <1>3, <1>4, <1>5, <2>1, <2>2, StartWorld
  <2>4. Granting(t, at2) = Granting(k, pc)
    BY <1>1, <1>3, <1>4, <1>5, <2>1, <2>2, StartGranting
  <2>5. InQueue(t, q, at2, sh)
    BY <1>1, <1>3, <1>4, <1>5, <2>1, <2>2, StartQueue
  <2>6. HasTokens(t, n, kb.size, at2, tokenLost)
    BY <1>4, <2>4 DEF HasTokens
  <2>. QED BY <1>4, <2>3, <2>5, <2>6 DEF Reading, q, n
<1>. QED
  BY <1>2, <1>6 DEF ReadersInv


\* The shell goes from "wait" to its getchar.
LEMMA WaitMoves ==
    ASSUME NEW s, NEW at, NEW sh, World(s, at, sh), sh = s.currentProcess, at[sh] = "wait",
           NEW at2, Moves(at, sh, "getchar", at2)
    PROVE  /\ sh \in Ctx /\ DOMAIN at2 = Ctx /\ at2[sh] = "getchar"
           /\ \A d \in Ctx : d # sh => at2[d] = at[d]
           /\ Undead(s) /\ s.status[sh] = "RUNNING"
           /\ s.pid[sh] = SHELL_PID /\ s.currentPid = SHELL_PID
           /\ FindProcess(s, s.currentPid) = sh
           /\ \A d \in Ctx : s.status[d] \in Live => ToSet(s.waitingList[d]) = {}
<1>1. /\ sh \in Ctx /\ DOMAIN at = Ctx /\ Inv(s) /\ s.status[sh] \in Live
      /\ s.pid[sh] = SHELL_PID
  BY DEF World, ShellLives
<1>2. /\ Undead(s) /\ s.status[sh] = "RUNNING" /\ s.currentPid = s.pid[sh]
      /\ FindProcess(s, s.currentPid) = sh
  BY <1>1, RunningAlone
<1>3. \A d \in Ctx : s.status[d] \in Live => ToSet(s.waitingList[d]) = {}
  BY <1>2 DEF World, Waiting
<1>. QED
  BY <1>1, <1>2, <1>3 DEF Moves

\* There is nobody to wait for.
LEMMA WaitForNobody ==
    ASSUME NEW s, NEW at, NEW sh, World(s, at, sh), DeadCat(s),
           sh = s.currentProcess, at[sh] = "wait",
           NEW at2, Moves(at, sh, "getchar", at2),
           FirstIn(s.processList, {c \in Ctx : IsForeground(s, c)}) = NULL
    PROVE  World(s, at2, sh)
<1>1. /\ sh \in Ctx /\ DOMAIN at2 = Ctx /\ at2[sh] = "getchar"
      /\ \A d \in Ctx : d # sh => at2[d] = at[d]
      /\ Undead(s) /\ s.status[sh] = "RUNNING" /\ s.pid[sh] = SHELL_PID
      /\ \A d \in Ctx : s.status[d] \in Live => ToSet(s.waitingList[d]) = {}
  BY WaitMoves
<1>2. Inv(s) /\ Lists(s) /\ Identity(s) /\ s.processList \in Seq(Ctx) /\ s.status[sh] \in Live
  BY DEF World, ShellLives, Inv, Common, Kernel
<1>3. \A c \in Ctx : ~ IsCat(s, sh, c)
  <2>. SUFFICES ASSUME NEW c \in Ctx, IsCat(s, sh, c) PROVE FALSE
    OBVIOUS
  <2>1. c # sh /\ s.status[c] \in Live
    BY <1>1, <1>2, StatusType DEF IsCat, Undead, Live
  <2>2. s.pid[c] # SHELL_PID
    BY <1>1, <1>2, <2>1, PidsDiffer
  <2>3. c \in ToSet(s.processList) /\ IsForeground(s, c)
    BY <1>2, <2>1, <2>2 DEF Lists, IsForeground, IsCat
  <2>. QED BY <1>2, <2>3, FirstInProperty
<1>4. ShellLives(s, at2, sh) /\ Labels(s, at2, sh)
  BY <1>1 DEF World, ShellLives, Labels
<1>5. Waiting(s, at2, sh) /\ Foreground(s, at2, sh)
  BY <1>1, <1>3 DEF Waiting, Foreground
<1>. QED
  BY <1>1, <1>4, <1>5 DEF World

HasWaited(s, sh, t) == t = s \/ \E cat : BlockedBehind(s, sh, cat, t)

LEMMA BlockedBehindCat ==
    ASSUME NEW s, NEW at, NEW sh, World(s, at, sh), sh = s.currentProcess, at[sh] = "wait",
           NEW cat \in Ctx, cat # sh, s.status[cat] \in Live,
           NEW t, t = WaitProcess(s, s.pid[cat])
    PROVE  BlockedBehind(s, sh, cat, t)
<1>1. /\ sh \in Ctx /\ Inv(s) /\ AtConsole(s) /\ s.status[sh] = "RUNNING"
      /\ s.pid[sh] = SHELL_PID
      /\ \A d \in Ctx : s.status[d] \in Live => ToSet(s.waitingList[d]) = {}
  <2>1. \E at2 : Moves(at, sh, "getchar", at2)
    BY DEF Moves
  <2>. QED BY <2>1, WaitMoves DEF World
<1>2. s.pid[sh] # IDLE_PID /\ s.status[sh] \in Live /\ Unawaited(s, cat)
  BY <1>1 DEF Live, SHELL_PID, IDLE_PID, Unawaited
<1>. QED
  BY <1>1, <1>2, CallerWaits

LEMMA WaitWorld ==
    ASSUME NEW s, NEW at, NEW sh, World(s, at, sh), sh = s.currentProcess, at[sh] = "wait",
           NEW at2, Moves(at, sh, "getchar", at2),
           NEW cat \in Ctx, IsCat(s, sh, cat), NEW t, BlockedBehind(s, sh, cat, t)
    PROVE  World(t, at2, sh) /\ DeadCat(t)
<1>1. /\ sh \in Ctx /\ DOMAIN at2 = Ctx /\ at2[sh] = "getchar"
      /\ \A d \in Ctx : d # sh => at2[d] = at[d]
      /\ s.pid[sh] = SHELL_PID
      /\ \A d \in Ctx : s.status[d] \in Live => ToSet(s.waitingList[d]) = {}
  BY WaitMoves
<1>2. /\ Inv(t) /\ AtConsole(t) /\ t.status[sh] = "BLOCKED" /\ t.pid[sh] = s.pid[sh]
      /\ \A d \in Ctx :
            /\ t.status[d] \in Live <=> s.status[d] \in Live
            /\ t.status[d] # "TERMINATED"
            /\ t.status[d] # "FREED" => /\ t.pid[d] = s.pid[d] /\ t.ground[d] = s.ground[d]
                                        /\ d # cat => t.waitingList[d] = s.waitingList[d]
      /\ sh \in ToSet(t.waitingList[cat]) /\ \A w \in ToSet(t.waitingList[cat]) : w = sh
  BY DEF BlockedBehind, HasWaited
<1>3. \A d \in Ctx : t.status[d] \in Live => t.status[d] # "FREED"
  BY DEF Live
<1>4. ShellLives(t, at2, sh)
  BY <1>1, <1>2 DEF ShellLives, Live
<1>5. Labels(t, at2, sh)
  BY <1>1, <1>2, <1>3 DEF World, Labels
<1>6. Waiting(t, at2, sh)
  <2>1. \A d \in Ctx : t.status[d] \in Live /\ d # cat => ToSet(t.waitingList[d]) = {}
    BY <1>1, <1>2, <1>3
  <2>2. cat # sh
    BY DEF IsCat
  <2>. QED BY <1>1, <1>2, <2>1, <2>2 DEF Waiting
<1>7. Foreground(t, at2, sh)
  <2>1. \A d \in Ctx : IsCat(t, sh, d) => d = cat
    <3>. SUFFICES ASSUME NEW d \in Ctx, IsCat(t, sh, d) PROVE d = cat
      OBVIOUS
    <3>1. t.status[d] \in Live
      BY <1>2, StatusType DEF IsCat, Live
    <3>2. s.status[d] # "FREED" /\ t.ground[d] = s.ground[d]
      BY <1>2, <3>1 DEF IsCat, Live
    <3>3. IsCat(s, sh, d)
      BY <3>2 DEF IsCat
    <3>. QED BY <3>3 DEF World, Foreground
  <2>. QED BY <1>1, <1>2, <2>1 DEF Foreground
<1>8. Unclaimed(t) /\ DeadCat(t)
  BY <1>2 DEF Unclaimed, DeadCat
<1>. QED
  BY <1>1, <1>2, <1>4, <1>5, <1>6, <1>7, <1>8 DEF World

LEMMA WaitQueue ==
    ASSUME NEW s, NEW at, NEW sh, World(s, at, sh), sh = s.currentProcess, at[sh] = "wait",
           NEW at2, Moves(at, sh, "getchar", at2),
           NEW q, InQueue(s, q, at, sh),
           NEW t, HasWaited(s, sh, t)
    PROVE  InQueue(t, q, at2, sh)
<1>1. /\ sh \in Ctx /\ at2[sh] = "getchar" /\ s.status[sh] = "RUNNING"
      /\ \A d \in Ctx : d # sh => at2[d] = at[d]
  BY WaitMoves
<1>2. \A d \in Ctx :
        /\ t.status[d] \in Live => s.status[d] \in Live /\ t.pid[d] = s.pid[d]
        /\ d # sh => (t.status[d] = "BLOCKED" <=> s.status[d] = "BLOCKED")
  <2>1. \A d \in Ctx : t.status[d] \in Live => t.status[d] # "FREED"
    BY DEF Live
  <2>. QED BY <2>1 DEF BlockedBehind, HasWaited
<1>3. Sleepers(t, q, at2)
  <2>. SUFFICES ASSUME NEW d \in Ctx, t.status[d] \in Live, NEW i \in 1 .. Len(q), q[i] = t.pid[d]
                PROVE  /\ t.status[d] = "BLOCKED" /\ at2[d] = "inRead"
                       /\ \A j \in 1 .. Len(q) : q[j] = t.pid[d] => j = i
    BY DEF Sleepers
  <2>1. s.status[d] \in Live /\ t.pid[d] = s.pid[d]
    BY <1>2
  <2>2. /\ s.status[d] = "BLOCKED" /\ at[d] = "inRead"
        /\ \A j \in 1 .. Len(q) : q[j] = s.pid[d] => j = i
    BY <2>1 DEF InQueue, Sleepers
  <2>3. d # sh
    BY <1>1, <2>2
  <2>. QED BY <1>1, <1>2, <2>1, <2>2, <2>3
<1>4. Clean(t, q, at2, sh)
  BY <1>1 DEF Clean, Commanding
<1>. QED
  BY <1>3, <1>4 DEF InQueue

LEMMA WaitGranting ==
    ASSUME NEW s, NEW at, NEW sh, World(s, at, sh), sh = s.currentProcess, at[sh] = "wait",
           NEW at2, Moves(at, sh, "getchar", at2),
           NEW t, HasWaited(s, sh, t)
    PROVE  Granting(t, at2) = Granting(s, at)
<1>1. /\ sh \in Ctx /\ at2[sh] = "getchar"
      /\ \A d \in Ctx : d # sh => at2[d] = at[d]
  BY WaitMoves
<1>2. \A d \in Ctx : /\ t.status[d] \in Live <=> s.status[d] \in Live
                     /\ d # sh => (t.status[d] = "BLOCKED" <=> s.status[d] = "BLOCKED")
  BY DEF BlockedBehind, HasWaited
<1>3. \A d \in Ctx : at2[d] = "inRead" /\ t.status[d] \in {"READY", "RUNNING"}
                       <=> at[d] = "inRead" /\ s.status[d] \in {"READY", "RUNNING"}
  BY <1>1, <1>2 DEF Live
<1>. QED
  BY <1>3 DEF Granting

LEMMA ShellWaitsKeeps ==
    ASSUME NEW sh, ReadersInv(sh), ShellWaits
    PROVE  ReadersInv(sh)'
<1>. DEFINE cat == FirstIn(k.processList, {c \in Ctx : IsForeground(k, c)})
            q   == sems[KEYBOARD_SEM_ID].waitQueue
            n   == sems[KEYBOARD_SEM_ID].counter
<1>1. /\ Running("wait") /\ Moves(pc, Me, "getchar", pc')
      /\ IF cat = NULL THEN k' = k ELSE k' = WaitProcess(k, k.pid[cat])
      /\ sems' = sems /\ kb' = kb /\ tokenLost' = tokenLost
  BY DEF ShellWaits, Goto, Moves
<1>2. Me \in Ctx /\ Me = k.currentProcess /\ pc[Me] = "wait"
  BY <1>1, CurrentIsContext
<1>3. /\ World(k, pc, sh) /\ DeadCat(k) /\ SemInOrder(sems) /\ InQueue(k, q, pc, sh)
      /\ HasTokens(k, n, kb.size, pc, tokenLost)
      /\ Lists(k) /\ k.processList \in Seq(Ctx) /\ k.pid[sh] = SHELL_PID
  BY DEF ReadersInv, Reading, World, Inv, Common, Kernel, ShellLives
<1>4. Me = sh
  BY <1>2, <1>3 DEF World, Labels
<1>. HIDE DEF cat, q, n
<1>5. ASSUME cat # NULL
      PROVE  cat \in Ctx /\ k.status[cat] \in Live /\ cat # sh /\ IsCat(k, sh, cat)
  <2>1. cat \in ToSet(k.processList) /\ cat \in {c \in Ctx : IsForeground(k, c)}
    BY <1>3, <1>5, FirstInProperty DEF cat
  <2>. QED BY <1>3, <2>1 DEF Lists, IsForeground, IsCat, Live
<1>6. ASSUME NEW at2, at2 = pc', NEW t, t = k'
      PROVE  Reading(t, sems, kb.size, at2, tokenLost, sh)
  <2>1. Moves(pc, sh, "getchar", at2) /\ sh = k.currentProcess /\ pc[sh] = "wait"
    BY <1>1, <1>2, <1>4, <1>6
  <2>2. World(t, at2, sh) /\ DeadCat(t) /\ HasWaited(k, sh, t)
    <3>1. CASE cat = NULL
      <4>1. World(k, at2, sh)
        BY <1>3, <2>1, <3>1, WaitForNobody DEF cat
      <4>. QED BY <1>1, <1>3, <1>6, <3>1, <4>1 DEF HasWaited
    <3>2. CASE cat # NULL
      <4>1. BlockedBehind(k, sh, cat, t)
        BY <1>1, <1>3, <1>5, <1>6, <2>1, <3>2, BlockedBehindCat
      <4>2. World(t, at2, sh) /\ DeadCat(t)
        BY <1>3, <1>5, <2>1, <3>2, <4>1, WaitWorld
      <4>. QED BY <4>1, <4>2 DEF HasWaited
    <3>. QED BY <3>1, <3>2
  <2>3. InQueue(t, q, at2, sh)
    BY <1>3, <2>1, <2>2, WaitQueue
  <2>4. Granting(t, at2) = Granting(k, pc)
    BY <1>3, <2>1, <2>2, WaitGranting
  <2>5. HasTokens(t, n, kb.size, at2, tokenLost)
    BY <1>3, <2>4 DEF HasTokens
  <2>. QED BY <1>3, <2>2, <2>3, <2>5 DEF Reading, q, n
<1>. QED
  BY <1>1, <1>6 DEF ReadersInv


-----------------------------------------------------------------------------
(***************************************************************************)
(* The specification.                                                      *)
(***************************************************************************)

\* The shell and idle are there and nobody has run.
LEMMA BootedWorld ==
    ASSUME ReadersInit
    PROVE  \E sh \in Ctx : World(k, pc, sh) /\ DeadCat(k)
<1>1. Init
  BY BootedInit, KeyReadersAssumption DEF ReadersInit
<1>2. /\ Inv(k) /\ AtConsole(k)
      /\ \A c \in Ctx : k.waitingList[c] = << >>
      /\ \A c \in Ctx : k.pid[c] # NO_PROCESS => k.status[c] = "READY"
      /\ \A c \in Ctx : k.status[c] # "FREED" => k.pid[c] \in {IDLE_PID, SHELL_PID}
  BY <1>1, InitInv
<1>3. PICK sh \in Ctx : k.pid[sh] = SHELL_PID /\ k.status[sh] \in Live
  BY <1>2 DEF Inv, Common, Survivors
<1>4. /\ DOMAIN pc = Ctx /\ pc[sh] = "getchar"
      /\ \A c \in Ctx : k.pid[c] # SHELL_PID => pc[c] = "none"
  BY <1>3 DEF ReadersInit
<1>5. \A c \in Ctx : k.status[c] # "TERMINATED"
  <2>1. \A c \in Ctx : k.status[c] = "TERMINATED" => k.pid[c] # NO_PROCESS
    BY <1>2 DEF SHELL_PID, IDLE_PID, NO_PROCESS
  <2>. QED BY <1>2, <2>1
<1>6. \A c \in Ctx \ {sh} : /\ k.pid[c] # SHELL_PID
                            /\ k.status[c] # "FREED" => k.status[c] \in Live /\ k.pid[c] = IDLE_PID
  <2>. SUFFICES ASSUME NEW c \in Ctx \ {sh}
                PROVE  /\ k.pid[c] # SHELL_PID
                       /\ k.status[c] # "FREED" => k.status[c] \in Live /\ k.pid[c] = IDLE_PID
    OBVIOUS
  <2>1. k.pid[c] = SHELL_PID => k.status[c] \in Live
    BY <1>2 DEF Live, SHELL_PID, NO_PROCESS
  <2>2. k.pid[c] # SHELL_PID
    BY <1>2, <1>3, <2>1, PidsDiffer
  <2>3. k.status[c] # "FREED" => k.status[c] \in Live
    BY <1>2, <1>5, StatusType DEF Live
  <2>. QED BY <1>2, <2>2, <2>3
<1>7. ShellLives(k, pc, sh) /\ Labels(k, pc, sh)
  BY <1>3, <1>4, <1>6 DEF ShellLives, Labels
<1>8. Waiting(k, pc, sh)
  <2>1. \A c \in Ctx : ToSet(k.waitingList[c]) = {}
    BY <1>2 DEF ToSet
  <2>. QED BY <2>1 DEF Waiting
<1>9. Foreground(k, pc, sh)
  <2>1. \A c \in Ctx : ~ IsCat(k, sh, c)
    <3>. SUFFICES ASSUME NEW c \in Ctx, IsCat(k, sh, c)
                  PROVE  FALSE
      OBVIOUS
    <3>1. c \in Ctx \ {sh} /\ k.status[c] # "FREED" /\ k.ground[c] = FOREGROUND
      BY DEF IsCat
    <3>3. k.status[c] \in Live /\ k.pid[c] = IDLE_PID
      BY <1>6, <3>1
    <3>4. Roles(k)
      BY <1>2 DEF Inv, Common
    <3>5. k.ground[c] = BACKGROUND
      BY <3>3, <3>4 DEF Roles
    <3>6. FOREGROUND # BACKGROUND
      BY DEF FOREGROUND, BACKGROUND
    <3>. QED BY <3>1, <3>5, <3>6
  <2>. QED BY <2>1 DEF Foreground
<1>10. Unclaimed(k) /\ DeadCat(k)
  BY <1>5 DEF Unclaimed, DeadCat
<1>. QED
  BY <1>2, <1>3, <1>4, <1>7, <1>8, <1>9, <1>10 DEF World

LEMMA ReadersInvInit ==
    ASSUME ReadersInit
    PROVE  \E sh \in Ctx : ReadersInv(sh)
<1>1. PICK sh \in Ctx : World(k, pc, sh) /\ DeadCat(k)
  BY BootedWorld
<1>. DEFINE none   == [id \in SemIds |-> Inactive]
            opened == [active |-> TRUE, counter |-> 0, waitQueue |-> << >>]
<1>2. sems = [none EXCEPT ![KEYBOARD_SEM_ID] = opened]
  <2>1. none[KEYBOARD_SEM_ID].active = FALSE
    BY KeyboardSem DEF Inactive
  <2>2. sems = SemCreate([sems |-> none], KEYBOARD_SEM_ID, 0).sems
    BY DEF ReadersInit
  <2>. HIDE DEF none
  <2>. QED BY <2>1, <2>2 DEF SemCreate
<1>3. /\ sems \in [SemIds -> Semaphore] /\ sems[KEYBOARD_SEM_ID] = opened
  <2>1. opened \in Semaphore /\ Inactive \in Semaphore
    <3>1. << >> \in Seq(Pids)
      OBVIOUS
    <3>. QED BY <3>1 DEF Semaphore, Inactive
  <2>. HIDE DEF opened
  <2>. QED BY <1>2, <2>1, KeyboardSem
<1>4. /\ sems[KEYBOARD_SEM_ID].active /\ sems[KEYBOARD_SEM_ID].counter = 0
      /\ sems[KEYBOARD_SEM_ID].waitQueue = << >>
  BY <1>3
<1>5. SemInOrder(sems)
  BY <1>3, <1>4 DEF SemInOrder
<1>6. InQueue(k, << >>, pc, sh)
  <2>1. << >> \in Seq(Pids) /\ 1 .. Len(<< >>) = {}
    OBVIOUS
  <2>. QED BY <2>1 DEF InQueue, Sleepers, Clean, AllLive
<1>7. HasTokens(k, 0, kb.size, pc, tokenLost)
  <2>. DEFINE y == Cardinality(Granting(k, pc))
  <2>1. y \in Nat /\ kb.size = 0
    BY GrantingFinite DEF ReadersInit, KeyboardInit
  <2>. HIDE DEF y
  <2>2. kb.size <= 0 + y
    BY <2>1
  <2>. QED BY <2>2 DEF HasTokens, y
<1>8. ReadersInv(sh)
  BY <1>1, <1>4, <1>5, <1>6, <1>7 DEF ReadersInv, Reading
<1>. QED
  BY <1>8

LEMMA ReadersInvStep ==
    ASSUME DriverInv, NEW sh, ReadersInv(sh), [ReadersNext]_readerVars
    PROVE  ReadersInv(sh)'
<1>1. CASE ReadKey
  BY <1>1, ReadKeyKeeps
<1>2. CASE WakeInRead
  BY <1>2, WakeInReadKeeps
<1>3. CASE ShellYields
  BY <1>3, ShellYieldsKeeps
<1>4. CASE ShellRunsBuiltIn
  BY <1>4, ShellRunsBuiltInKeeps
<1>5. CASE ShellWaits
  BY <1>5, ShellWaitsKeeps
<1>6. CASE ShellKillsCat
  BY <1>6, ShellKillsCatKeeps
<1>7. CASE CatExits
  BY <1>7, CatExitsKeeps
<1>8. CASE \E ground \in Grounds : ShellStartsCat(ground)
  BY <1>8, ShellStartsCatKeeps
<1>9. CASE Tick
  BY <1>9, TickKeeps
<1>10. CASE KeyInterrupt
  BY <1>10, KeyInterruptKeeps
<1>11. CASE UNCHANGED readerVars
  BY <1>11 DEF ReadersInv, readerVars
<1>. QED
  BY <1>1, <1>2, <1>3, <1>4, <1>5, <1>6, <1>7, <1>8, <1>9, <1>10, <1>11
  DEF ReadersNext, ProgramStep

\* Nobody sleeps on a key: whatever the user types, Ctrl+C and Ctrl+D among it,
\* and however the handler, the readers and the commands of the shell interleave,
\* there is a token for every key in the buffer, in the semaphore or with a reader
\* that sem_post woke, as long as kill takes no reader with the token it was given.
THEOREM KeysHaveTokensCorrect == ReadersSpec => []KeysHaveTokens
<1>. DEFINE KeysInv == DriverInv /\ \E sh \in Ctx : ReadersInv(sh)
<1>1. ReadersInit => KeysInv
  BY ReadersInitially, ReadersInvInit
<1>2. KeysInv /\ [ReadersNext]_readerVars => KeysInv'
  <2>. SUFFICES ASSUME KeysInv, [ReadersNext]_readerVars PROVE KeysInv'
    OBVIOUS
  <2>1. DriverInv'
    BY ReadersStep, QueueStepIsStep
  <2>2. PICK sh \in Ctx : ReadersInv(sh)
    OBVIOUS
  <2>3. ReadersInv(sh)'
    BY <2>2, ReadersInvStep
  <2>. QED BY <2>1, <2>3
<1>3. KeysInv => KeysHaveTokens
  BY DEF ReadersInv, Reading, HasTokens, KeysHaveTokens, Granted, Granting
<1>. HIDE DEF KeysInv
<1>. QED
  BY <1>1, <1>2, <1>3, PTL DEF ReadersSpec

=================================================================================
