----------------------------- MODULE EdgeBuffer -----------------------------
(***************************************************************************)
(* The way of an electrical change from a GPIO to the engine               *)
(* (firmware/app/gpio_hw.c and the main loop of firmware/app/main.c): the  *)
(* GPIO block latches edges, the interrupt handler turns them into entries *)
(* of a ring buffer, and the main loop takes them out and hands them to    *)
(* hp_engine_on_edge.  When the ring was full the main loop reads all      *)
(* GPIOs and hands the differences to hp_engine_resync.                    *)
(*                                                                         *)
(* The handler may interrupt the main loop between any two of its steps,   *)
(* and pins change at any time.  Of the engine only the electrical value   *)
(* it knows of each tracked pin is kept here.                              *)
(***************************************************************************)
EXTENDS Integers, Sequences, FiniteSets

CONSTANTS
  Pins,               \* the input pins
  EDGE_BUFFER_SIZE,   \* slots of the ring, one of which stays free (256)
  MaxChanges,         \* bound: electrical changes in a behaviour
  MaxInWindow         \* bound: interrupts between the pop that finds the ring
                      \* empty and the look at the overflow flag

ASSUME EdgeBufferAssumption ==
  /\ EDGE_BUFFER_SIZE \in Nat \ {0}
  /\ MaxChanges \in Nat /\ MaxInWindow \in Nat

VARIABLES
  wire,            \* the electrical value of each pin
  latched,         \* the edges the GPIO block has latched for each pin
  irq,             \* the pin and the edges the handler runs for, or NoIrq
  edge_buffer, edge_head, edge_tail, edge_overflow,
  loop,            \* where the main loop is
  edge,            \* what gpio_hw_pop_edge has copied out
  known,           \* the raw value the engine knows of each tracked pin
  tracked,         \* the pins the engine is tracking
  changes,         \* electrical changes so far
  window           \* interrupts since the ring was found empty

ringVars == <<edge_buffer, edge_head, edge_tail, edge_overflow>>
pinVars  == <<wire, latched, changes>>
mainVars == <<loop, edge, known, tracked>>
vars == <<pinVars, irq, ringVars, mainVars, window>>

Edges == [gpio : Pins, level : BOOLEAN]
Slots == 0 .. EDGE_BUFFER_SIZE - 1
NoIrq == [gpio |-> {}, mask |-> {}]
Loop  == {"tud_task", "pop", "advance", "take_overflow", "resync", "task"}

\* Mutated form of NextSlot: the index does not wrap.
NextSlotUnwrapped(i) == i + 1

\* The slot after i: the size is a power of two and the code masks.
NextSlot(i) == (i + 1) % EDGE_BUFFER_SIZE

TypeOK ==
  /\ wire \in [Pins -> BOOLEAN] /\ latched \in [Pins -> SUBSET {"rise", "fall"}]
  /\ irq \in [gpio : {{}} \cup {{p} : p \in Pins}, mask : SUBSET {"rise", "fall"}]
  /\ edge_buffer \in [Slots -> Edges]
  /\ edge_head \in Slots /\ edge_tail \in Slots /\ edge_overflow \in BOOLEAN
  /\ loop \in Loop /\ edge \in Edges
  /\ known \in [Pins -> BOOLEAN] /\ tracked \subseteq Pins
  /\ changes \in 0 .. MaxChanges /\ window \in 0 .. MaxInWindow

(***************************************************************************)
(* After gpio_hw_init and the first finish_settle, with the ring empty.    *)
(***************************************************************************)
Init ==
  /\ wire \in [Pins -> BOOLEAN]
  /\ latched = [p \in Pins |-> {}]
  /\ irq = NoIrq
  /\ \E p \in Pins : /\ edge = [gpio |-> p, level |-> FALSE]
                     /\ edge_buffer = [i \in Slots |-> edge]
  /\ edge_head = 0 /\ edge_tail = 0 /\ edge_overflow = FALSE
  /\ loop = "tud_task"
  /\ known = wire
  /\ tracked = Pins
  /\ changes = 0 /\ window = 0

-----------------------------------------------------------------------------
(***************************************************************************)
(* The pins and the interrupt.                                             *)
(***************************************************************************)
Change(p) ==
  /\ changes < MaxChanges
  /\ wire' = [wire EXCEPT ![p] = ~@]
  /\ latched' = [latched EXCEPT ![p] =
                   @ \cup {IF wire[p] THEN "fall" ELSE "rise"}]
  /\ changes' = changes + 1
  /\ UNCHANGED <<irq, ringVars, mainVars, window>>

\* The SDK's dispatcher takes the latched edges of a pin, acknowledges them
\* and calls gpio_edge_irq.
Interrupt(p) ==
  /\ irq = NoIrq
  /\ latched[p] # {}
  /\ loop = "take_overflow" => window < MaxInWindow
  /\ irq' = [gpio |-> {p}, mask |-> latched[p]]
  /\ latched' = [latched EXCEPT ![p] = {}]
  /\ window' = IF loop = "take_overflow" THEN window + 1 ELSE window
  /\ UNCHANGED <<wire, changes, ringVars, mainVars>>

\* Mutated form of EdgeLevel: a rise hides a fall.
EdgeLevelRise(p, mask) == "rise" \in mask

\* Which level an interrupt stands for: with both edges latched only the
\* value the pin has now is meaningful.
EdgeLevel(p, mask) ==
  IF mask = {"rise", "fall"} THEN wire[p] ELSE "rise" \in mask

\* Mutated forms of PushEdge: the overflow is not noted; the slot that
\* is to stay free is used too.
PushEdgeSilently(e) ==
  IF NextSlot(edge_head) = edge_tail
  THEN UNCHANGED ringVars
  ELSE /\ edge_buffer' = [edge_buffer EXCEPT ![edge_head] = e]
       /\ edge_head' = NextSlot(edge_head)
       /\ UNCHANGED <<edge_tail, edge_overflow>>
PushEdgeIntoLast(e) ==
  /\ edge_buffer' = [edge_buffer EXCEPT ![edge_head] = e]
  /\ edge_head' = NextSlot(edge_head)
  /\ edge_overflow' = (edge_overflow \/ NextSlot(edge_head) = edge_tail)
  /\ UNCHANGED edge_tail

PushEdge(e) ==
  IF NextSlot(edge_head) = edge_tail
  THEN /\ edge_overflow' = TRUE
       /\ UNCHANGED <<edge_buffer, edge_head, edge_tail>>
  ELSE /\ edge_buffer' = [edge_buffer EXCEPT ![edge_head] = e]
       /\ edge_head' = NextSlot(edge_head)
       /\ UNCHANGED <<edge_tail, edge_overflow>>

\* The body of gpio_edge_irq; the main loop stands still meanwhile.
GpioEdgeIrq ==
  /\ \E p \in irq.gpio : PushEdge([gpio |-> p, level |-> EdgeLevel(p, irq.mask)])
  /\ irq' = NoIrq
  /\ UNCHANGED <<pinVars, mainVars, window>>

-----------------------------------------------------------------------------
(***************************************************************************)
(* One pass of the main loop.                                              *)
(***************************************************************************)
At(place) == loop = place /\ irq = NoIrq

\* tud_task: a host may give a pin another pull, which acknowledges what was
\* latched and leaves the pin untracked until it has settled.
TudTask ==
  /\ At("tud_task")
  /\ loop' = "pop"
  /\ \/ UNCHANGED <<latched, tracked>>
     \/ \E p \in Pins : /\ latched' = [latched EXCEPT ![p] = {}]
                        /\ tracked' = tracked \ {p}
  /\ UNCHANGED <<wire, changes, irq, ringVars, edge, known, window>>

\* gpio_hw_pop_edge copies the oldest entry and then moves the tail.
PopCopy ==
  /\ At("pop") /\ edge_tail # edge_head
  /\ edge' = edge_buffer[edge_tail]
  /\ loop' = "advance"
  /\ UNCHANGED <<pinVars, irq, ringVars, known, tracked, window>>

PopAdvance ==
  /\ At("advance")
  /\ edge_tail' = NextSlot(edge_tail)
  /\ known' = IF edge.gpio \in tracked
              THEN [known EXCEPT ![edge.gpio] = edge.level] ELSE known
  /\ loop' = "pop"
  /\ UNCHANGED <<pinVars, irq, edge_buffer, edge_head, edge_overflow, edge,
                 tracked, window>>

PopEmpty ==
  /\ At("pop") /\ edge_tail = edge_head
  /\ loop' = "take_overflow"
  /\ window' = 0
  /\ UNCHANGED <<pinVars, irq, ringVars, edge, known, tracked>>

TakeOverflow ==
  /\ At("take_overflow")
  /\ edge_overflow' = FALSE
  /\ loop' = IF edge_overflow THEN "resync" ELSE "task"
  /\ UNCHANGED <<pinVars, irq, edge_buffer, edge_head, edge_tail, edge, known,
                 tracked, window>>

Resync ==
  /\ At("resync")
  /\ known' = [p \in Pins |-> IF p \in tracked THEN wire[p] ELSE known[p]]
  /\ loop' = "task"
  /\ UNCHANGED <<pinVars, irq, ringVars, edge, tracked, window>>

\* hp_engine_task: pins that have settled are read and tracked again.
EngineTask ==
  /\ At("task")
  /\ \/ UNCHANGED <<known, tracked>>
     \/ /\ known' = [p \in Pins |-> IF p \in tracked THEN known[p] ELSE wire[p]]
        /\ tracked' = Pins
  /\ loop' = "tud_task"
  /\ UNCHANGED <<pinVars, irq, ringVars, edge, window>>

Main == \/ TudTask \/ PopCopy \/ PopAdvance \/ PopEmpty
        \/ TakeOverflow \/ Resync \/ EngineTask

Isr == (\E p \in Pins : Interrupt(p)) \/ GpioEdgeIrq

Next == (\E p \in Pins : Change(p)) \/ Isr \/ Main

Spec == Init /\ [][Next]_vars

\* The processor runs: it takes pending interrupts and goes on with the loop.
FairSpec == Spec /\ WF_vars(Isr) /\ WF_vars(Main)

-----------------------------------------------------------------------------
\* The entries of the ring, oldest first.
Contents ==
  [i \in 1 .. (edge_head - edge_tail) % EDGE_BUFFER_SIZE |->
     edge_buffer[(edge_tail + i - 1) % EDGE_BUFFER_SIZE]]

Fifo == INSTANCE EdgeFifo WITH
          Events <- Edges, QUEUE_SIZE <- EDGE_BUFFER_SIZE - 1,
          queue <- Contents, overflowed <- edge_overflow

(***************************************************************************)
(* Handler and main loop, each writing its own index without a lock, make  *)
(* a first-in first-out queue of one entry less than the ring has slots.   *)
(***************************************************************************)
ImplementsFifo == Fifo!FifoSpec

(***************************************************************************)
(* The main loop uses the entry it removes: nothing overwrites it between  *)
(* the copy and the move of the tail.                                      *)
(***************************************************************************)
PoppedIsOldest ==
  loop = "advance" => edge_tail # edge_head /\ edge = edge_buffer[edge_tail]

\* What the engine will know of a pin once the ring is empty.
WillKnow(p) ==
  LET of(q) == {i \in DOMAIN Contents : Contents[i].gpio = q}
  IN  IF of(p) = {} THEN known[p]
      ELSE Contents[CHOOSE i \in of(p) : \A j \in of(p) : j <= i].level

(***************************************************************************)
(* No change is forgotten: unless an edge of the pin still waits in the    *)
(* GPIO block or in the handler, or a resynchronisation is to come, the    *)
(* entries in the ring lead the engine to the pin's electrical value.      *)
(* This needs that an overflow cannot build up between the pop that finds  *)
(* the ring empty and the look at the flag: with more interrupts there     *)
(* than the ring has room for, the flag is taken before the stale entries  *)
(* are popped, and they undo the resynchronisation.                        *)
(***************************************************************************)
NothingForgotten ==
  (~edge_overflow /\ loop # "resync") =>
    \A p \in tracked :
      (latched[p] = {} /\ p \notin irq.gpio) => WillKnow(p) = wire[p]

(***************************************************************************)
(* Once the pins are quiet the engine gets to know all of them as they     *)
(* are.                                                                    *)
(***************************************************************************)
CatchesUp == <>[](\A p \in tracked : known[p] = wire[p])
=============================================================================
