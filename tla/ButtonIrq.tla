----------------------------- MODULE ButtonIrq -----------------------------
(***************************************************************************)
(* buttons.c: button A with an interrupt on its falling edge.              *)
(* attach_callback_to_button_a reports success whatever happens and the    *)
(* programs go on.                                                         *)
(***************************************************************************)
EXTENDS Integers

VARIABLES
  attach,   \* next statement of attach_callback_to_button_a
  irq,      \* the pin interrupt is enabled
  cb,       \* button_a_cb is on the port's list
  handler,  \* button_a_user_handler is set
  level,    \* level of the pin; 0 while pressed
  pending   \* a falling edge was detected and is about to be served

attachVars == <<attach, irq, cb, handler>>
buttonVars == <<attachVars, level, pending>>

ButtonInit ==
  /\ attach = "uncalled"
  /\ irq = FALSE /\ cb = FALSE /\ handler = FALSE
  /\ level \in {0, 1}
  /\ pending = FALSE

\* An interrupt about to be served preempts the thread.
CallAttach ==
  /\ attach = "uncalled" /\ ~pending
  /\ attach' = "interrupt"
  /\ UNCHANGED <<irq, cb, handler, level, pending>>

ConfigureInterrupt ==
  /\ attach = "interrupt" /\ ~pending
  /\ attach' = "add"
  /\ irq' \in BOOLEAN
  /\ UNCHANGED <<cb, handler, level, pending>>

AddCallback ==
  /\ attach = "add" /\ ~pending
  /\ cb' \in BOOLEAN
  /\ attach' = IF cb' THEN "set" ELSE "done"
  /\ UNCHANGED <<irq, handler, level, pending>>

SetHandler ==
  /\ attach = "set" /\ ~pending
  /\ attach' = "done"
  /\ handler' = TRUE
  /\ UNCHANGED <<irq, cb, level, pending>>

Attach == ConfigureInterrupt \/ AddCallback \/ SetHandler

\* External: the contact opens or closes.  gpio_pin_interrupt_configure
\* asks for the falling edge.
MoveButton ==
  /\ level' = 1 - level
  /\ pending' = (pending \/ (irq /\ level = 1))
  /\ UNCHANGED attachVars

\* The port driver calls button_a_handler if it is on the list, and that
\* calls the user's function if it is set.
Interrupt ==
  /\ pending
  /\ pending' = FALSE
  /\ UNCHANGED <<attachVars, level>>

Served == Interrupt /\ cb /\ handler
Unserved == Interrupt /\ ~(cb /\ handler)

\* The call went through: presses reach the user's function.
Attached == attach = "done" /\ irq /\ handler
=============================================================================
