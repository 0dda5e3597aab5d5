---------------------------------- MODULE Bus ----------------------------------
(***************************************************************************)
(* The SPI bus that the panel shares with the TF card, and the LVGL lock:  *)
(* display.c, with the callers of both in ui.c and sd_log.c.               *)
(*                                                                         *)
(* The LVGL task renders with the LVGL lock held and, chunk by chunk, hands *)
(* buffers to the panel: it takes the guard, queues the transfer, and the  *)
(* transfer-done interrupt gives the guard back.  The pager task logs pages *)
(* to the card under the same guard, and repaints under the LVGL lock, as  *)
(* the button task does.                                                    *)
(***************************************************************************)
EXTENDS Integers

CONSTANT Chunks    \* bound on the buffers of one lv_timer_handler

ASSUME BusAssumption == Chunks \in Nat \ {0}

VARIABLES
  lvgl,      \* holder of the LVGL lock: "free" or a task
  guard,     \* s_spi_bus_sem can be taken
  dma,       \* the panel is shifting out a queued transfer
  flushing,  \* LVGL waits for flush_ready
  chunks,    \* buffers left to this lv_timer_handler
  pc         \* where each task is

Task == {"pager", "button", "lvgl"}
busVars == <<lvgl, guard, dma, flushing, chunks, pc>>

At(t, here, there) == pc[t] = here /\ pc' = [pc EXCEPT ![t] = there]

BusInit ==
  /\ lvgl = "free" /\ guard = TRUE /\ dma = FALSE
  /\ flushing = FALSE /\ chunks = 0
  /\ pc = [t \in Task |-> "idle"]

(* A task sets out to repaint (ui_render_queue, ui_set_status; for the LVGL  *)
(* task, its lap) and waits for the LVGL lock.                               *)
WantUi(t) ==
  /\ At(t, "idle", "wantUi")
  /\ UNCHANGED <<lvgl, guard, dma, flushing, chunks>>

TakeUi(t) ==
  /\ At(t, "wantUi", "ui") /\ lvgl = "free"
  /\ lvgl' = t
  /\ chunks' \in IF t = "lvgl" THEN 0 .. Chunks ELSE {chunks}
  /\ UNCHANGED <<guard, dma, flushing>>

GiveUi(t) ==
  /\ At(t, "ui", "idle") /\ (t = "lvgl" => chunks = 0)
  /\ lvgl' = "free"
  /\ UNCHANGED <<guard, dma, flushing, chunks>>

-----------------------------------------------------------------------------
(* With two buffers LVGL waits for the transfer before this one to be ready, *)
(* then calls lvgl_flush_cb, which takes the guard.                          *)
Flush ==
  /\ At("lvgl", "ui", "flush") /\ chunks > 0 /\ ~ flushing
  /\ flushing' = TRUE /\ chunks' = chunks - 1
  /\ UNCHANGED <<lvgl, guard, dma>>

TakeGuard ==
  /\ At("lvgl", "flush", "draw") /\ guard
  /\ guard' = FALSE
  /\ UNCHANGED <<lvgl, dma, flushing, chunks>>

DrawGivesGuard ==
  /\ At("lvgl", "draw", "ui")
  /\ dma' = TRUE /\ guard' = TRUE
  /\ UNCHANGED <<lvgl, flushing, chunks>>

\* esp_lcd queues the transfer and returns at once: the guard stays taken.
Draw ==
  /\ At("lvgl", "draw", "ui")
  /\ dma' = TRUE
  /\ UNCHANGED <<lvgl, guard, flushing, chunks>>

DrawFailsAndRetries ==
  /\ At("lvgl", "draw", "flush")
  /\ guard' = TRUE
  /\ UNCHANGED <<lvgl, dma, flushing, chunks>>

\* It refuses the transfer: no interrupt will come.
DrawFails ==
  /\ At("lvgl", "draw", "ui")
  /\ guard' = TRUE /\ flushing' = FALSE
  /\ UNCHANGED <<lvgl, dma, chunks>>

TransferDoneReadyOnly ==
  /\ dma
  /\ dma' = FALSE /\ flushing' = FALSE
  /\ UNCHANGED <<lvgl, guard, chunks, pc>>

\* notify_lvgl_flush_ready, in the interrupt.
TransferDone ==
  /\ dma
  /\ dma' = FALSE
  /\ guard' = TRUE /\ flushing' = FALSE
  /\ UNCHANGED <<lvgl, chunks, pc>>

-----------------------------------------------------------------------------
(* sd_log_message: one stretch of the bus for the whole write, whether or   *)
(* not the file opens.  At boot sd_log_init mounts the card the same way.    *)
WantCard ==
  /\ At("pager", "idle", "wantCard")
  /\ UNCHANGED <<lvgl, guard, dma, flushing, chunks>>

TakeCard ==
  /\ At("pager", "wantCard", "card") /\ guard
  /\ guard' = FALSE
  /\ UNCHANGED <<lvgl, dma, flushing, chunks>>

GiveCard ==
  /\ At("pager", "card", "idle")
  /\ guard' = TRUE
  /\ UNCHANGED <<lvgl, dma, flushing, chunks>>

LvglStep == WantUi("lvgl") \/ GiveUi("lvgl") \/ Flush \/ Draw \/ DrawFails

BusNext ==
  \/ \E t \in Task : WantUi(t) \/ TakeUi(t) \/ GiveUi(t)
  \/ Flush \/ TakeGuard \/ Draw \/ DrawFails \/ TransferDone
  \/ WantCard \/ TakeCard \/ GiveCard

(* Every task runs on once it holds what it needs, and the hardware answers. *)
(* Both locks go to their waiters: a mutex and a semaphore wake the highest  *)
(* priority first, and those sleep between two laps.                         *)
BusFairness ==
  /\ \A t \in Task : SF_busVars(TakeUi(t)) /\ WF_busVars(GiveUi(t))
  /\ WF_busVars(LvglStep) /\ SF_busVars(TakeGuard) /\ WF_busVars(TransferDone)
  /\ SF_busVars(TakeCard) /\ WF_busVars(GiveCard)

BusSpec == BusInit /\ [][BusNext]_busVars
BusFairSpec == BusSpec /\ BusFairness
=============================================================================
