-------------------------------- MODULE Gpio --------------------------------
(***************************************************************************)
(* One interrupt pin of the board, from the character driver gpio.c down   *)
(* to the EXTI lines.  GPIOC_REGISTER and GPIOC_UNREGISTER update the      *)
(* signal slots and the count of registrations in a critical section, and  *)
(* attach and enable, or disable and detach, the pin AFTER it, one store   *)
(* at a time: other tasks, the buttons that share the interrupt of the     *)
(* pin, and the interrupt itself come in between.                          *)
(***************************************************************************)
EXTENDS Integers, Sequences, FiniteSets

CONSTANTS Task,         \* the tasks that register for the pin
          Poller,       \* the tasks that read and poll the pin
          None,         \* a slot with gp_pid 0
          NSIGNALS,     \* CONFIG_DEV_GPIO_NSIGNALS
          NPOLLWAITERS, \* CONFIG_DEV_GPIO_NPOLLWAITERS
          MaxEdges      \* bound on the rising edges of the pin

ASSUME GpioAssumption ==
    /\ IsFiniteSet(Task) /\ Cardinality(Task) < 256 /\ None \notin Task
    /\ NSIGNALS \in Nat /\ NPOLLWAITERS \in Nat /\ MaxEdges \in Nat

VARIABLES gp_signals,   \* dev->gp_signals: the pid of each slot
          register_count,   \* dev->register_count, a uint8_t
          int_count,    \* dev->int_count
          callback,     \* stm32gpint->callback is set
          exti,         \* g_gpio_callbacks[pin].callback is set
          other,        \* a button of the same interrupt has its callback set
          irq,          \* the interrupt that the pins share is enabled
          imr,          \* the pin is unmasked in EXTI_CPUIMR1
          todo,         \* the stores that each task's ioctl has still to make
          registered,   \* the task has registered, and not unregistered since
          f_priv,       \* filep->f_priv: the count of each poller's last read
          fds,          \* the pollers that have a slot in dev->fds
          revents,      \* the pollers whose poll reports POLLIN
          level,        \* the level of the pin
          seen,         \* the level that each poller has read
          reading,      \* the pollers that are between the steps of gpio_read
          pending,      \* the pin's bit in EXTI_CPUPR1
          missed,       \* the last rising edge did not reach gpio_handler
          panic         \* an interrupt found no callback

dev == <<gp_signals, register_count>>
chip == <<callback, exti, irq, imr>>
poll == <<f_priv, fds, revents, seen, reading>>
vars == <<dev, chip, poll, int_count, other, todo, registered, level, pending,
          missed, panic>>

-----------------------------------------------------------------------------
(* The stores of stm32_gpint_attach and stm32_gpint_enable, in their order *)

disable == <<"cb_clear", "irq_check", "imr_clear">>     \* stm32_gpiosetevent
enable == <<"cb_test", "cb_set", "irq_set", "imr_set">>
attach(cb) == disable \o <<cb>>

Step(t, name) == ~panic /\ todo[t] # <<>> /\ todo[t][1] = name
Idle(t) == ~panic /\ todo[t] = <<>>       \* after a panic nothing runs
Done(t) == todo' = [todo EXCEPT ![t] = Tail(@)]

\* One store of an ioctl.  The last case of the interrupt controller is a test
\* of all callbacks of the shared interrupt, followed by the store.  The callback
\* and its argument, which is the same for all callers, are stored as one; the
\* edge and event registers of the line are left out, no property reads them.
SetEvent(t) ==
    /\ \/ Step(t, "cb_clear") /\ exti' = FALSE /\ Done(t) /\ UNCHANGED <<irq, imr>>
       \/ Step(t, "cb_set") /\ exti' = TRUE /\ Done(t) /\ UNCHANGED <<irq, imr>>
       \/ Step(t, "irq_set") /\ irq' = TRUE /\ Done(t) /\ UNCHANGED <<exti, imr>>
       \/ Step(t, "irq_clear") /\ irq' = FALSE /\ Done(t) /\ UNCHANGED <<exti, imr>>
       \/ Step(t, "imr_set") /\ imr' = TRUE /\ Done(t) /\ UNCHANGED <<exti, irq>>
       \/ Step(t, "imr_clear") /\ imr' = FALSE /\ Done(t) /\ UNCHANGED <<exti, irq>>
       \/ /\ Step(t, "irq_check")
          /\ todo' = [todo EXCEPT ![t] = (IF exti \/ other THEN <<>> ELSE <<"irq_clear">>)
                                         \o Tail(@)]
          /\ UNCHANGED <<exti, irq, imr>>
    /\ UNCHANGED <<dev, poll, callback, int_count, other, registered, level,
                   pending, missed, panic>>

\* The end of stm32_gpint_attach
gpint_attach(t) ==
    /\ \/ Step(t, "attach_handler") /\ callback' = TRUE
       \/ Step(t, "attach_null") /\ callback' = FALSE
    /\ Done(t)
    /\ UNCHANGED <<dev, poll, exti, irq, imr, int_count, other, registered,
                   level, pending, missed, panic>>

\* The start of stm32_gpint_enable: without a callback it fails with -EINVAL,
\* and register_count is not taken back.
gpint_enable(t) ==
    /\ Step(t, "cb_test")
    /\ IF callback THEN Done(t) ELSE todo' = [todo EXCEPT ![t] = <<>>]
    /\ UNCHANGED <<dev, chip, poll, int_count, other, registered, level,
                   pending, missed, panic>>

-----------------------------------------------------------------------------
(* GPIOC_REGISTER and GPIOC_UNREGISTER *)

Slot == 1..NSIGNALS

\* The first slot that is free or the task's own is taken.
take_slot(t) ==
    LET mine == {i \in Slot : gp_signals[i] \in {None, t}} IN
    /\ mine # {}
    /\ LET i == CHOOSE k \in mine : \A j \in mine : k <= j
       IN  gp_signals' = [gp_signals EXCEPT ![i] = t]

\* Mutant: the count says only whether somebody is registered.
gpioc_register_flag(t) ==
    /\ Idle(t) /\ ~registered[t]
    /\ take_slot(t)
    /\ register_count' = 1
    /\ registered' = [registered EXCEPT ![t] = TRUE]
    /\ todo' = [todo EXCEPT ![t] =
                    IF register_count > 0 THEN <<>> ELSE attach("attach_handler") \o enable]
    /\ UNCHANGED <<chip, poll, int_count, other, level, pending, missed, panic>>

\* The critical section; without a slot the call fails with -EBUSY before it.
\* Every registration asks for a signal, and a task registers once: a call with
\* a null argument, which takes no slot, and a second one are left out.
gpioc_register(t) ==
    /\ Idle(t) /\ ~registered[t]
    /\ take_slot(t)
    /\ register_count' = (register_count + 1) % 256
    /\ registered' = [registered EXCEPT ![t] = TRUE]
    /\ todo' = [todo EXCEPT ![t] =
                    IF register_count > 0 THEN <<>> ELSE attach("attach_handler") \o enable]
    /\ UNCHANGED <<chip, poll, int_count, other, level, pending, missed, panic>>

\* Mutant: the slot of a task that leaves is cleared where it is.
drop_slot_leaves_hole(t) ==
    gp_signals' = [i \in Slot |-> IF gp_signals[i] = t THEN None ELSE gp_signals[i]]

\* The last slot in use moves into the one that becomes free.
drop_slot(t) ==
    LET i == CHOOSE k \in Slot : gp_signals[k] = t
        j == CHOOSE k \in i..NSIGNALS :
                /\ \A l \in (i + 1)..k : gp_signals[l] # None
                /\ k < NSIGNALS => gp_signals[k + 1] = None
    IN  gp_signals' = [gp_signals EXCEPT ![i] = gp_signals[j], ![j] = None]

\* Mutant: register_count-- > 0 for --register_count > 0.
gpioc_unregister_postfix(t) ==
    /\ Idle(t) /\ registered[t]
    /\ drop_slot(t)
    /\ register_count' = (register_count - 1) % 256
    /\ registered' = [registered EXCEPT ![t] = FALSE]
    /\ todo' = [todo EXCEPT ![t] =
                    IF register_count > 0 THEN <<>> ELSE disable \o attach("attach_null")]
    /\ UNCHANGED <<chip, poll, int_count, other, level, pending, missed, panic>>

gpioc_unregister(t) ==
    /\ Idle(t) /\ registered[t]
    /\ drop_slot(t)
    /\ register_count' = (register_count - 1) % 256
    /\ registered' = [registered EXCEPT ![t] = FALSE]
    /\ todo' = [todo EXCEPT ![t] =
                    IF register_count' > 0 THEN <<>> ELSE disable \o attach("attach_null")]
    /\ UNCHANGED <<chip, poll, int_count, other, level, pending, missed, panic>>

\* A button of the same interrupt is enabled or disabled.  btn_enable runs
\* stm32_gpiosetevent in a critical section.
btn_enable(on) ==
    /\ ~panic
    /\ other' = on
    /\ irq' = (on \/ (exti /\ irq))
    /\ UNCHANGED <<dev, poll, callback, exti, imr, int_count, todo, registered,
                   level, pending, missed, panic>>

-----------------------------------------------------------------------------
(* The pin and its interrupt *)

rising_edge ==
    /\ ~panic /\ ~level /\ int_count < MaxEdges
    /\ level' = TRUE
    /\ pending' = (pending \/ imr)
    /\ missed' = ~imr
    /\ UNCHANGED <<dev, chip, poll, int_count, other, todo, registered, panic>>

falling_edge ==
    /\ ~panic /\ level /\ level' = FALSE
    /\ UNCHANGED <<dev, chip, poll, int_count, other, todo, registered, pending,
                   missed, panic>>

\* Mutant: an interrupt that a poll reports is not counted.
gpio_handler_uncounted ==
    /\ int_count' = IF fds = {} THEN int_count + 1 ELSE int_count
    /\ revents' = revents \cup fds

\* Everybody in a poll slot is notified.  (The signals to the tasks in the
\* slots before the first free one do not change this state.)
gpio_handler ==
    /\ int_count' = int_count + 1
    /\ revents' = revents \cup fds

\* The interrupt: stm32_exti_multiisr, stm32_gpio_interrupt_handler, and the
\* callback
multiisr ==
    /\ ~panic /\ pending /\ irq
    /\ pending' = FALSE
    /\ \/ exti /\ callback /\ gpio_handler /\ UNCHANGED <<missed, panic>>
       \/ exti /\ ~callback /\ panic' = TRUE /\ missed' = TRUE
          /\ UNCHANGED <<int_count, revents>>
       \/ ~exti /\ missed' = TRUE /\ UNCHANGED <<int_count, revents, panic>>
    /\ UNCHANGED <<dev, chip, f_priv, fds, seen, reading, other, todo, registered,
                   level>>

-----------------------------------------------------------------------------
(* The pollers: gpio_read and gpio_poll *)

Free(p) == ~panic /\ p \notin reading /\ p \notin fds

gpio_read(p) ==
    /\ Free(p)
    /\ reading' = reading \cup {p}
    /\ f_priv' = [f_priv EXCEPT ![p] = int_count]
    /\ UNCHANGED <<dev, chip, seen, int_count, other, todo, registered, fds,
                   revents, level, pending, missed, panic>>

gpint_read(p) ==
    /\ ~panic /\ p \in reading
    /\ reading' = reading \ {p}
    /\ seen' = [seen EXCEPT ![p] = level]
    /\ UNCHANGED <<dev, chip, f_priv, int_count, other, todo, registered, fds,
                   revents, level, pending, missed, panic>>

\* Without a free slot the poll fails with -EBUSY.
gpio_poll_setup(p) ==
    /\ Free(p) /\ Cardinality(fds) < NPOLLWAITERS
    /\ fds' = fds \cup {p}
    /\ revents' = IF int_count # f_priv[p] THEN revents \cup {p} ELSE revents
    /\ UNCHANGED <<dev, chip, f_priv, int_count, other, todo, registered, seen,
                   reading, level, pending, missed, panic>>

gpio_poll_teardown(p) ==
    /\ ~panic /\ p \in fds
    /\ fds' = fds \ {p}
    /\ revents' = revents \ {p}
    /\ UNCHANGED <<dev, chip, f_priv, int_count, other, todo, registered, seen,
                   reading, level, pending, missed, panic>>

-----------------------------------------------------------------------------
Init ==
    /\ gp_signals = [i \in Slot |-> None]
    /\ register_count = 0 /\ int_count = 0
    /\ callback = FALSE /\ exti = FALSE /\ other = FALSE /\ irq = FALSE /\ imr = FALSE
    /\ todo = [t \in Task |-> <<>>]
    /\ registered = [t \in Task |-> FALSE]
    /\ f_priv = [p \in Poller |-> 0]
    /\ fds = {} /\ revents = {} /\ reading = {}
    /\ level \in BOOLEAN
    /\ seen = [p \in Poller |-> TRUE]
    /\ pending = FALSE /\ missed = FALSE /\ panic = FALSE

Next ==
    \/ \E t \in Task : \/ gpioc_register(t) \/ gpioc_unregister(t)
                       \/ SetEvent(t) \/ gpint_attach(t) \/ gpint_enable(t)
    \/ \E on \in BOOLEAN : btn_enable(on)
    \/ rising_edge \/ falling_edge \/ multiisr
    \/ \E p \in Poller : \/ gpio_read(p) \/ gpint_read(p)
                         \/ gpio_poll_setup(p) \/ gpio_poll_teardown(p)

Spec == Init /\ [][Next]_vars

-----------------------------------------------------------------------------
(* Properties *)

\* Every variable keeps its type: in particular register_count, a uint8_t, does
\* not wrap around to 255 when every task unregisters what it registered.
TypeOK ==
    /\ gp_signals \in [Slot -> Task \cup {None}]
    /\ register_count \in 0..Cardinality(Task)
    /\ int_count \in 0..MaxEdges /\ f_priv \in [Poller -> 0..MaxEdges]
    /\ {callback, exti, other, irq, imr, level, pending, missed, panic} \subseteq BOOLEAN
    /\ todo \in [Task -> Seq({"cb_clear", "cb_set", "cb_test", "irq_check", "irq_clear",
                              "irq_set", "imr_clear", "imr_set", "attach_handler",
                              "attach_null"})]
    /\ registered \in [Task -> BOOLEAN] /\ seen \in [Poller -> BOOLEAN]
    /\ fds \subseteq Poller /\ revents \subseteq Poller /\ reading \subseteq Poller

\* gpio_handler, which stops at the first free slot, reaches every task that
\* has registered, once, and no task that has unregistered.
RegistrantsSignalled ==
    \A t \in Task :
        Cardinality({i \in Slot : gp_signals[i] = t
                                  /\ \A j \in 1..i : gp_signals[j] # None})
            = IF registered[t] THEN 1 ELSE 0

\* When nobody is registered and no ioctl is under way the pin is off, down to
\* the interrupt, unless a button uses it: in whatever order the stores of
\* overlapping calls came, no leftover of them enables the pin.
UnusedIsQuiet ==
    register_count = 0 /\ (\A t \in Task : todo[t] = <<>>) =>
        /\ ~callback /\ ~exti /\ ~imr
        /\ irq => other

\* A task that polls misses no interrupt: the poll reports each one since the
\* task's last read, whether it came before the poll, while it was set up or
\* after; and a task that has read a low pin learns that the pin has gone high,
\* because gpio_read takes the count before it reads the pin.
NoMissedInterrupt ==
    /\ \A p \in fds : int_count # f_priv[p] => p \in revents
    /\ \A p \in Poller \ reading :
        ~seen[p] /\ level /\ ~pending /\ ~missed => int_count # f_priv[p]

-----------------------------------------------------------------------------
(* What a comment in the code claims, and what it does not keep *)

\* "The callback function pointer is valid (checked by caller)": the interrupt
\* handler of the board never finds it NULL.
CallbackValid == ~panic
=============================================================================
