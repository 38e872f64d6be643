# Formal models of the micro:bit v2 Zephyr programs

TLA+ models of `zephyr_bbc_microbit_v2`, small Zephyr programs for the BBC
micro:bit v2: Bluetooth LE services, an accelerometer that counts steps, the LED
matrix and buttons, a serial flash memory, a colour display.  The repository
holds three generations (`zephyr_2.6.0`, `zephyr_3.1.0`, `zephyr_3.7.0`).  Where
a program differs between generations each is modelled; where it is copied the
newest one is the reference.  Paths below are relative to `src/`; `3.7.0` stands
for `zephyr_3.7.0`.

Contents: [inventory](#inventory), [modules](#modules),
[runs](#runs-what-is-checked-and-what-it-shows), [bounds](#bounds),
[fairness](#fairness), [proofs](#proofs),
[where the code and its comments disagree](#where-the-code-and-its-comments-disagree),
[not modelled](#not-modelled), [what could come next](#what-could-come-next).

## Inventory

| Component | State | Operations | Talks to | What is hard |
|---|---|---|---|---|
| Step counter over Bluetooth, `3.7.0/ble_stepcount/src/main.c` | `stepcount_value`, `Subscribed`, `active_conn`, `old_stepcount` | `main`, read, write and CCC callbacks, connection callbacks, step interrupt | host, step sensor | callbacks and interrupt between any two statements of `main`; lost links; full buffers |
| Combined demo, `3.7.0/microbit_demo/src/main.c` | the same three times over, `led` | start-up, a loop over three notified values, LED write | host, sensor, buttons, matrix | notify before or after assigning; callbacks registered after advertising |
| Attribute tables of the demo, the same file | four services laid out by macros | notify by position, subscribe by position, discover by identifier | host | an entry more or less moves every later position |
| Minimal Bluetooth program, `*/ble_minimal/src/main.c` | `char_value`, `Subscribed`, `active_conn` | loop, callbacks | host | an increment that a write can interrupt; three generations that differ in flag, descriptor and write handler |
| Older step counters, `3.1.0` and `2.6.0/ble_stepcount/src/main.c` | as the newest; 2.6.0 has no flag | the same | host, step sensor | the same; 2.6.0 notifies whoever is connected |
| Accelerometer over Bluetooth, `3.7.0/microbit_ble_accel/src/main.c` | `x_accel`, `active_conn` | start-up, sampling loop, read callback | host, sensor | a start-up that can fail in six places |
| Step sensor driver, `*/*/src/lsm303_ll.c` | `pStepCount`, pin interrupt, callback; the sensor's registers | `lsm303_ll_begin`, `lsm303_countSteps`, step interrupt | I2C, a pin shared with the interface MCU | partial failure, retry, warm restart |
| Readings, the same file | registers accepted or refused | six read functions | I2C | a measurement that ends between two bytes; sign, scale and width |
| LED matrix, `3.7.0/*/src/matrix.c` | levels of ten pins | `matrix_put_pattern`, `matrix_all_off`, one pin at a time | GPIO | what shines between two pin writes |
| Buttons, `3.7.0/buttons_with_interrupt/src/buttons.c` | callback, user handler | attach, interrupt | GPIO | presses during set-up |
| Matrix programs: `3.7.0/led_matrix`, `3.1.0/buttons_with_matrix`, `3.1.0/buttons_with_matrix_with_interrupts`, `3.7.0/buttons_with_interrupt` | `rows`, `cols`, `state` | loop, button handler | matrix, buttons | pairs of variables read in two steps; wrap-arounds |
| Serial flash driver, `3.7.0/mx25l8005/src/ext_flash_mem.c` | chip select; the chip's array, latch, power state | read, program, three erases, enable, power | SPI | busy waits, power cuts, page wrap |
| Flash example, `3.7.0/mx25l8005/src/main.c` | - | enable, program, read | flash driver | power cuts and resets in the middle of it |
| Colour display driver, `3.1.0/st7789_display/src/display.c` | the panel's window and pixels | start-up, fill, image, line, rectangle, circles, text | SPI | block remainders, error terms, clipping, an eight-bit index, columns against rows |
| Display demo, `*/st7789_display/src/main.c` | `shift_register`, `count` | loop, `prbs`, `random` | display | the period of the register |
| Pressure monitor, `*/bmp280_st7789/src` | the sensor's registers, `t_fine` | command, status loop, two burst reads | I2C, display | a bus that fails at any moment; two readings that must be of one measurement |
| ADC to PWM, `*/analog_io/src` | `channel_0_data`, `adcvalue`, the output | start-up, convert twice, write | ADC, PWM | widths of integers, refused pulses, dropped results |
| Small GPIO programs: blinking, copying a button, switching by interrupt, serial accelerometer and magnetometer, chip temperature | pins, the sample of a Zephyr driver | start-up, loop, interrupt | GPIO, sensor drivers | pins whose configuration failed; which of two calls failed |

What makes each correct:

* Bluetooth programs: a subscribed central learns values in order, none from the
  future, and knows the last one in the end; the program's flags agree with the
  host's; nothing of one connection reaches the next.
* Attribute tables: a notification carries the characteristic it is meant for and
  a subscription sets the flag of that characteristic.
* Step sensor: 0 means that steps are counted, a failure means that nothing is
  armed, every edge counts once.
* Readings: what is returned was measured, whole and in scale.
* Matrix and buttons: what is lit is what the variables say, torn pairs do not
  last, no press is served by a half-attached handler.
* Flash: a call does to the array exactly what it promises, the chip is left
  alone while it works, a power cut costs no cell that was not being written.
* Display: rectangles, lines, circles and characters are the cells they stand for.
* Pressure monitor: a pressure is compensated with the temperature of the same
  measurement, and the program outlives a bus that failed.
* ADC to PWM: the output is in proportion to the voltage.
* GPIO programs: lamps blink, follow or toggle as their buttons ask; what is
  printed was fetched in this turn.

## Modules

| Module | Stands for | Used by |
|---|---|---|
| `BtLink` | external: Zephyr's Bluetooth host, the radio and one central (`CONFIG_BT_MAX_CONN` is 1) | all Bluetooth programs |
| `Telling` | abstract: what a notified value promises its central | refined by all of them |
| `BleStepcount` | `3.7.0/ble_stepcount`, statement by statement | `MCBleStepcount` |
| `MicrobitDemo`, `DemoTable` | `3.7.0/microbit_demo` and its attribute tables | `MCMicrobitDemo` |
| `BlePrograms` | `ble_minimal` (three generations), `ble_stepcount` (two older ones), `microbit_ble_accel` | `MCBlePrograms` |
| `StepSensor` | `lsm303_ll_begin`, `lsm303_countSteps`, the interrupt, three generations, the sensor, the interface MCU | `Peripherals` |
| `Program` | the shape all loops share: statements that run once, statements that run for ever | the next five |
| `Readings` | the read functions of `lsm303_ll.c` and the five programs that call them | `Peripherals` |
| `PressureMonitor` | `bmp280_st7789`, two generations | `Peripherals` |
| `AnalogLoop` | `analog_io`, three generations | `Peripherals` |
| `Numbers` | the display demo and its shift register | `Peripherals` |
| `GpioLoops` | fifteen programs around one pin | `Peripherals` |
| `Peripherals` | the programs around one peripheral, one of which is on the board | `MCPeripherals` |
| `LedMatrix`, `ButtonIrq` | `matrix.c`, `buttons.c` | the matrix programs |
| `LedScan`, `MatrixPolled`, `MatrixOnPress`, `LampOnPress`, `LedWrite` | the matrix programs; `LedWrite` is the LED characteristic of the combined demo | `MatrixPrograms` |
| `MatrixPrograms` | the five programs, one of which is on the board | - |
| `FlashChip` | external: the MX25L8005 | `FlashDriver` |
| `FlashDriver` | `ext_flash_mem.c` | `FlashCalls` |
| `FlashArray` | abstract: an array of cells with a write enable switch | refined by `FlashCalls` |
| `FlashCalls` | the driver under any sequence of calls | `MCFlashCalls`, `FlashMain` |
| `FlashMain` | the example program, one of those callers, and resets | `MCFlashMain` |
| `Display` | `display.c` and the panel's window | `MCDisplay` |
| `BtLinkProofs` | lemmas: what the link keeps for any channel | the next three |
| `BleStepcountProofs`, `MicrobitDemoProofs`, `BleProgramsProofs` | theorems about the Bluetooth programs | - |
| `PeripheralsProofs` | theorems about `StepSensor`, `Readings`, `PressureMonitor`, `AnalogLoop`, `Numbers`, `GpioLoops` | - |
| `MatrixProgramsProofs`, `FlashProofs`, `DisplayProofs` | theorems about the matrix programs, the flash driver and its example, the display | - |

### Bluetooth

A program counter `pc` names `main`'s next statement that touches shared state.
Callbacks run in Zephyr's cooperative threads: they preempt `main`, a
preemptible thread, between any two statements, and run to completion, so each
is one action, conjoined with what the host does around it.  The step interrupt
is one action.

| Action | Code |
|---|---|
| `BtEnable`, `bt_ready`, `Register` | start-up, in its order, failures included |
| `TestActive`, `Compare`, `Assign`, `TestSubscribed`, `NotifyStep` | the statements of `ble_stepcount`'s loop body, lines 204-213 |
| `Compare(c)`, `NotifyChan(c)`, `Assign(c)` | the three if-blocks of the demo, lines 460-474; button B assigns before it notifies |
| `Load`, `Increment` | `char_value++`, `3.7.0/ble_minimal` line 182 |
| `Sample` | `x_accel = lsm303_ll_readAccelX()` |
| `connected`, `disconnected`, `step_notify_changed`, `subscribe_changed` | the callbacks |
| `read_*`, `write_*` | the attribute handlers; writes of the wrong length included |
| `stepcount_handler` | the step interrupt, `lsm303_ll.c` lines 62-69 |

`stepcount_value` in `ble_stepcount` is not volatile, so `Assign` may store the
copy `Compare` loaded or load it again; both are explored.

The programs of `BlePrograms` are tables: what the service declares, what
`disconnected` clears, and the statements of `main` in order.  One set of actions
runs any of them, so the generations are compared under the same host.

`DemoTable` lays the entries out as the macros do.  `MicrobitDemo` notifies the
entry at the position `main` names, the host answers a subscription with the
first CCC entry after the value, and the central looks identifiers up within
their service; that the three agree is part of `ImplementsTelling` and
`FlagsMatchCcc`.

`BtLink` keeps history: `gen[c]` counts the changes of a value and every packet
carries the generation it was built from.  Properties compare generations, so
they tell a value from an equal one that came later.  What the central `Known`s
is the newest generation it received, or the one that held when it subscribed.

`Telling` has four steps: the value changes, the central learns a newer
generation that exists, a subscription starts, it ends.

### Step sensor

The statements of `lsm303_ll_begin` and `lsm303_countSteps` that can fail or that
change something; the sensor, with the four registers that counting depends on;
the interrupt line, which the interface MCU may hold until it has booted and been
read once; restarts, which reset the driver but neither the sensor nor, in a warm
restart, the interface MCU. The older drivers have no delay and no dummy read, so
with them the line may stay held. With the newest it may too: the result of the
dummy read (lines 41-42) is only printed, so a read that failed leaves the line
held and start-up goes on to return 0. `refused` is the set of I2C addresses whose
transfer failed unnoticed since the restart: four registers of the sensor, and the
interface MCU. The lookups of the I2C and GPIO devices can fail as well (-1 of
`lsm303_ll_begin`, -2 of `lsm303_countSteps`).

### Programs around one peripheral

A program is two tuples of statements, `setup` and `loop`; `at` is the index of
the next one, zero once the program has stopped.  A statement that the code tests
may `Stop`; one whose result the code drops may fail unnoticed.

* `Readings`: a read is two bytes, the low one first; the sensor may finish a
  measurement in between.  Bytes are put together and scaled as the code does,
  with C's division.
* `PressureMonitor`: the sensor numbers its measurements; `temperature` and
  `pressure` are the sets of measurements their bytes came from.  The
  compensation formulas are left out.
* `AnalogLoop`: samples of the ends and the middle of the range and one below
  zero; products modulo 2^32, the 16-bit argument of the 2.6.0 `pwm_write`.
* `Numbers`: the shift register as the set of its ones, and the numbers the calls
  of a turn draw.
* `GpioLoops`: pins configured or not, levels, the pending interrupt, the sample
  of a Zephyr driver and the program's copy of it.

### Matrix and buttons

A `matrix_*` call is the list of its pin writes, `SetPin` does one of them. The
bit masks are sets of bit positions in a byte, `Not` and `Shift` are `~` and `<<`
in eight bits. The start-up of each program may find a device missing; it then
stays in `while(1)`, or leaves `main` (`Begin`, `Hang`). `ButtonIrq` attaches in
the code's order and lets each call fail, as the code goes on and reports success.
A pending interrupt preempts the thread; the lamp's handler runs the whole pattern
inside the interrupt.

`LedWrite` takes writes of any length. Line 303 of the demo copies as many bytes
as the central sent, so a write that is longer than `led` overruns it (`overrun`).
What lies behind `led` is up to the linker: from then on any pin write may go
elsewhere and the program may die (`Spoilt`), and `LedsShowValue` promises
nothing.

### Flash

`FlashChip` collects what it is sent while its chip select is low and acts when it
rises. A cell is the set of its bits that are 1, so programming is intersection
and erasing is the full set. A power cut while the chip works leaves every
changing cell anywhere on its way. The driver sends the low 24 bits of an address
(`AddressSize`), the chip uses those its array has (`Decoded`). `FlashDriver` has
one action per step of an SPI exchange: `Select`, `SendCommand`, `SendData` or
`ReceiveData`, `Deselect`, `Poll`, `Return`. A reset, unlike a power cut, leaves
the chip as it is, with a part of a transfer received and the chip select low;
`init_spi` raises it, and the chip acts on what it has.

`FlashArray` knows none of this: a call is requested, performed at one moment,
returns.  Under the refinement a program or erase is performed when the chip
completes it, a read when its data have been received, everything else when the
chip select rises.

### Display

One action per turn of a drawing loop, with the code's integer variables.  The
loops for low and high slopes are one action with the axes exchanged, which is
all they differ in.  `putPixel` opens a window of two by two cells and sends one
pixel.  `display_begin` may fail or hang; when it succeeds the whole screen has
been blacked out by the same block loop.  `display_print` turns its index once
per character; `TextBox` is the transposition from a font of columns to a panel
of rows.  Colours are left out, a cell is painted or not.

## Runs: what is checked and what it shows

Twelve runs; eight pass and four show a disagreement between code and comment.

| Run | Configuration | Properties | Shows |
|---|---|---|---|
| `stepcount` | `BleStepcount.cfg` | `TypeOK`, `NothingSkipped`, `FlagMatchesCcc`, `PacketsInOrder`, `ImplementsTelling`, `KeepsTelling` | `ble_stepcount` keeps its promise under every interleaving |
| `demo` | `Demo.cfg` | `FlagsMatchCcc`, `ButtonsNothingSkipped`, `ImplementsTelling`, `ButtonsKeepTelling` | the demo's three characteristics together: subscriptions reach the right flags, notifications the right characteristic, and the buttons are told to the end although one block assigns before and the other after notifying |
| `ble_programs` | `BlePrograms.cfg` | `FlagMatchesCcc`, `ImplementsTelling`, `KeepsTelling` | six more Bluetooth programs, among them `ble_minimal`, whose `disconnected` does not clear the flag, and two without one |
| `peripherals` | `Peripherals.cfg` | `NoPhantomSteps`, `AnswersHold`, `StepsAreCounted`, `ReadingsWhole`, `ShowsWhatItRead`, `MonitorGoesOn`, `PulseInProportion`, `MaximumLength`, `LampsAnswer` | twenty-eight programs whose calls and transfers fail at every place the models name, the unnoticed ones included, and the period of the board's shift register |
| `matrix` | `MatrixPrograms.cfg` | `OneLedAtRest`, `NoGhostInRow`, `EveryLedShown`, `SettlesOnPosition`, `LampFollowsState`, `PressesToggle`, `LedsShowValue` | the five matrix programs, pin by pin, their start-up failing or not; every LED has its turn in the scan, and in the polled program while A is held; the LEDs show a written value until a write overruns it |
| `flash_calls` | `FlashCalls.cfg` | `WaitsForChip`, `ImplementsArray`, `CallsReturn` | the driver implements the array and never disturbs a working chip |
| `flash_main` | `FlashMain.cfg` | `OnlyAsked`, `ReadsBack`, `SurvivesPowerCuts` | the example program under power cuts and resets, on a used chip and on an erased one: nothing else is touched, what is read is what the cells hold, power cuts never keep the bits from being cleared |
| `display` | `Display.cfg` | `RectangleFilled`, `LinesStraight`, `CirclesRound`, `TextPrinted`, `CallsEnd` | start-up and drawing loops against geometric definitions, and what is left to do falls with every turn |
| `demo_lost_step` | `DemoLostStep.cfg` | `StepKeepsTelling` (violated) | a step between notification and assignment is never told |
| `demo_early_central` | `DemoEarlyCentral.cfg` | `ReferenceKept` (violated) | a central that connects before the callbacks are registered stays unknown |
| `minimal_lost_write` | `MinimalLostWrite.cfg` | `CountsOnFromMemory` (violated) | an acknowledged write is overwritten by an increment that had begun |
| `analog_noise` | `AnalogNoise.cfg` | `InProportion` (violated) | a sample just below zero leaves the output at its last pulse |

Deadlock is checked in `matrix`, `flash_calls`, `flash_main` and `display`.
The others say `CHECK_DEADLOCK FALSE`: the bounds on changes and restarts end
them, and a program that hung or left `main` at start-up stops.  In `matrix` and
`display` a program that hung stands in its `while(1)`, which is the step `Hang`.

Some properties have an exception that belongs to the code.  `KeepsTelling` and
`ButtonsKeepTelling` excuse a value that has come back to the one the program
compares with (`CameBack`): the code compares values, so a counter that wraps or
is written back between two turns is rightly seen as unchanged.  `CallsReturn`
excuses a sleeping chip, whose status line nobody drives.

Some are weaker than one might expect, because the code is:

* `SurvivesPowerCuts` holds without resets only, and "programmed" means old contents
  AND data: the sector erase is commented out (`main.c` line 17), and programming
  alone sets no bit.
* `ReadsBack` says at any time that what is read is what the cells hold.  That this
  is what main programmed holds without resets, and as old contents AND data: the
  data themselves on an erased chip only.
* `EveryLedShown` and `SettlesOnPosition` speak of programs that came to their loop,
  `PressesToggle` of a handler that was attached.
* `LedsShowValue` holds until a write is longer than `led`.
* `NoGhostInRow` does not speak of a change of row, where two LEDs do shine
  together between two pin writes.
* `AnswersHold` allows for a register write the sensor refused, which the driver
  does not notice.  That nobody else holds the line it says for 3.7.0 only, and
  there unless the dummy read failed, which nobody notices either.
* `LampsAnswer` says of `button_a_interrupt` what its handler does, which is to
  toggle.  A press that comes while one is still pending is lost; the property only
  says that presses for ever switch the lamp for ever.
* `ReadingsWhole` grants an acceleration sixteen units of error: its two bytes may
  be of two measurements, as block data update is set for the magnetometer only.
* `ShowsWhatItRead` excuses bytes that a failed transfer left unread: the monitor
  shows them.
* `PulseInProportion` leaves samples below zero out; `InProportion` has them.

## Bounds

| Bound | Value | Why it is enough |
|---|---|---|
| `Changes` | 4 (`stepcount`), 3 (`ble_programs`) | the order of two changes around one turn of the loop is what matters; four allow two turns with changes in the middle of both |
| `StepChanges`, `AChanges`, `BChanges`, `MaxChanges` (`demo`) | 1, 1, 2, and 2 in all | one change of each of two characteristics, or two of one, in any order and place; one characteristic alone with four changes is what `stepcount` explores |
| `Modulus` | 3; 2 in `demo`, where values are levels of buttons; 4 where a wrap would only add an excuse | the counter wraps, and values come back |
| `WriteVals` | 0 and 2; 1 in `demo` | values that agree with the start and ones that do not |
| `TxBufs` | 1 or 2 | a notification finds the queue full |
| `MaxEdges`, `MaxRestarts` | 3, 2 | an edge before, during and after set-up; a second restart finds what the first left |
| `Measurements` | 7 values of 16 bits | both ends of the range, zero, and both sides of the boundary between the bytes |
| measurements of the monitor | counted modulo 3 | a byte of the last, of this and of the next measurement differ; the program never holds more |
| `Voltages` | -1, 0, 1, 2048, 4095 | noise below zero, both ends, a step, the middle; the theorems are for every value of 12 bits and as many below zero |
| `Width` | 31, the board's | the period is found by squaring the register's matrix 31 times, not by going through the states |
| `MaxDrawn` | 40 | more numbers than the register has bits, and turns with and without clearing the screen |
| `Longest` (`LedWrite`) | 5 bytes, for a value of 4 | writes that are empty, shorter than the value, as long, and too long; all that are too long are alike |
| `Turns` | 2, not 20 | turns with and without clearing the screen |
| `N` | 4, not 5 | first, middle and last line and a last one whose mask is not the byte's last bit; the masks keep the board's eight bits |
| flash sizes | 16 cells of one bit; 8 cells of two bits | two or more pages in a sector, sectors in a block, blocks in the chip; a cell that is partly programmed |
| `Requests` (flash) | 16 calls | each function; erases that start inside their unit, a program that wraps in its page, one without data, a read past the end |
| `AddressSize` | 32, for 16 cells | addresses beyond the array, and beyond the bits that are sent |
| `MaxCuts`, `MaxResets` | 1 (`flash_calls`); 2 and 2 | a cut during the recovery from a cut |
| `PIXEL_CACHE_SIZE` | 4, not 32 | several blocks, with remainders of every size, within 5 by 5 |
| lines | all with both ends in 6 by 6 | all eight directions, slopes of 0, 1, a half and others, both orders of the ends, the single point |
| circles | every centre and radius up to 8 on 16 by 15 | circles that touch each edge, and ones that just leave it |
| `Font`, `FONT_WIDTH`, `FONT_HEIGHT` | two characters of 2 by 3 dots | a character that its transposition changes, of unequal sides |
| `IndexSize`, texts | 4, not 256; every text of up to 4 characters | the index reaches its last value, and the text for which it wraps |
| `CoordinateSize` | 64, not 65536 | larger than any coordinate of the screen, so a wrapped one is off it |

History counters (`gen`, `told`, `seen`, `noted`, `edges`) grow with the changes
and are bounded by these.

## Fairness

* `WF(Main)`, `WF(Thread)`, `WF(Driver)`: Zephyr's scheduler runs the only
  application thread whenever no callback or interrupt does.  `main` blocked in
  `bt_gatt_notify` is not enabled, so the assumption does not free it.
* `SF(Thread)` in the two matrix programs with a button interrupt: an interrupt
  disables the thread for a moment only, and presses that are served leave time
  between them.  Weak fairness would let a button that bounces for ever stop the
  thread.
* `WF(disconnected)`: the host finishes the cleanup of a dead link.
* `WF(CentralReceives)`: a live link delivers; the link layer retransmits.  A link
  that cannot deliver dies (`Drop`), which nothing forces.
* `WF(stepcount_handler)`, `WF(button_a_pressed)`, `WF(Interrupts)`: a pending
  interrupt is served.
* `WF(InterfaceBoots)`: the interface MCU boots within the delay the code waits.
* `WF(MeasurementEnds)`: the pressure sensor finishes what it was told to measure.
* `WF(Chip)`: the flash chip completes its work.

Steps, presses, centrals, lost links, buses that fail or come back, power cuts
and resets are never forced.

## Proofs

TLAPS proves thirty-nine theorems that a reader should know of.  There is one for
every invariant, every refinement and every other action property the passing
runs check, except `MaximumLength`: the run shows the property on a small
instance, the theorem for every value of the constants that the assumptions
below allow.  For the four disagreements between code and comment a theorem says
exactly when the comment does not hold.  And of four liveness properties the half
that is a safety property is proved.

| Module | Theorem | Property | For every |
|---|---|---|---|
| `BleStepcountProofs` | `TypeCorrect` | `TypeOK` | modulus, set of written values, number of buffers, bound on changes |
| | `NeverSkips` | `NothingSkipped` | |
| | `FlagCorrect` | `FlagMatchesCcc` | |
| | `PacketsCorrect` | `PacketsInOrder` | |
| | `Refinement` | `ImplementsTelling` | |
| `MicrobitDemoProofs` | `FlagsCorrect` | `FlagsMatchCcc` | the same, with a modulus of two or more |
| | `ButtonsNotSkipped` | `ButtonsNothingSkipped` | |
| | `Refinement` | `ImplementsTelling` | |
| | `StepsLostThereOnly` | (`StepKeepsTelling`) nothing is skipped but by a change at the assignment | |
| | `ReferenceLostThereOnly` | `ReferenceKept`, if none connects before the registration | |
| `BleProgramsProofs` | `FlagCorrect` | `FlagMatchesCcc` | the same, and every set of the six programs |
| | `Refinement` | `ImplementsTelling` | |
| | `WritesLostThereOnly` | `CountsOnFromMemory`, but for changes between the load and the store | |
| `PeripheralsProofs` | `StepsAnswered` | `AnswersHold` | set of programs, number of edges and restarts |
| | `StepsReal` | `NoPhantomSteps` | |
| | `ReadingsCorrect` | `ReadingsWhole` | measurement of 16 bits |
| | `ShowsCorrect` | `ShowsWhatItRead` | set of programs |
| | `PulseCorrect` | `PulseInProportion` | voltage of 12 bits, or as far below zero |
| | `OutOfProportionBelowZeroOnly` | `InProportion`, if none below zero is measured | |
| | `NeverLocksUp` | the register is never full of ones | width of the register |
| | `ShiftLosesNothing` | no two registers have the same successor | |
| `MatrixProgramsProofs` | `OneLed` | `OneLedAtRest` | size of the matrix up to 7 by 7, the most a byte with a spare bit holds |
| | `NoGhost` | `NoGhostInRow` | |
| | `LampCorrect` | `LampFollowsState` | |
| | `LedCorrect` | `LedsShowValue` | |
| | `ScansInOrder` | (`EveryLedShown`) the scan goes round in reading order | |
| `FlashProofs` | `NeverDisturbed` | `WaitsForChip` | geometry, contents, set of calls, number of power cuts |
| | `Refinement` | `ImplementsArray` | |
| | `CallsGoForward` | (`CallsReturn`) every step brings the return nearer | |
| | `NothingElseTouched` | `OnlyAsked` | geometry, contents, data within a page, number of cuts and resets |
| | `ReadsCorrect` | `ReadsBack` | |
| | `MainIsACaller` | `ImplementsArray`, of the example until its first reset | |
| | `OnlyClears` | no step of the example sets a bit | |
| | `SurvivesOnceRead` | `SurvivesPowerCuts`, if the program comes to its read | |
| `DisplayProofs` | `RectanglesFilled` | `RectangleFilled` | screen, block size, rectangle |
| | `LinesDrawn` | `LinesStraight` | line and rectangle |
| | `CirclesDrawn` | `CirclesRound` | screen, centre and radius |
| | `TextsPrinted` | `TextPrinted` | font, text, place, range of the index |
| | `DrawingEnds` | `CallsEnd` | all of these |

A property in brackets is a liveness property whose safety half the theorem
states; the others are named in their theorem.

### Assumptions on the constants

Most only give a constant its type.  The others, and what in the code stands for
them:

* `ChipAssumption`: pages divide sectors and blocks.  They are 256, 4096 and
  65536 bytes.
* `DriverAssumption`: pages divide the array, and the array the range of the address
  bytes.  They have 2^20 and 2^24 bytes.
* `CallsAssumption`: a call names a function of the driver and has the arguments
  of that function.
* `MainAssumption`: the data of the example lie within one page: four bytes from
  `0xfed04` (`main.c` lines 15-18).
* `CallerAssumption`: the example's three calls are among those explored.
* `MatrixAssumption`: at most seven rows and columns, since the masks are bytes
  and a walking bit is tested one place after the last line; the board has five.
* `KnownPrograms`, `PeripheralsAssumption`: the programs are those modelled; a
  sample has 12 bits, or is as far below zero; the register is wide enough for its
  taps.
* `DisplayAssumption`: the screen lies within the coordinates' range.
* `RequestsAssumption` of `Display`: coordinates and sizes are unsigned; a rectangle,
  and a text whose length the index can count, ends before a coordinate wraps.  Longer texts
  are not excluded: they are those from which `print` never returns.

### The arguments

Each theorem rests on an inductive invariant that was model-checked first.

**`BtLink`.**  What any program over the link may rely on is proved once, for any
channels.  Packets about a channel lie in the air in the order of its generations
and between what the central has seen and what was told (`QueueOrdered`).
`BtLinkProofs` has one lemma for each operation of the host.

**`BleStepcount`.**  `NothingSkipped` is not inductive.  `IInv` adds:
`StartedInOrder`, as `bt_ready` sets the link to advertising whatever it was;
`FlagIsCcc`, stronger than `FlagMatchesCcc`, as the flag must be right at the
moment a link comes up; `NoCccUnlinked`, as a new central starts unsubscribed;
`QueueOrdered`, as a dropped link falls back to what the central received last,
which may be any packet of the queue; `HistoryOrdered`, as a notification carries
the newest value.  `Refinement` maps every action to one of `Telling`'s four or
to a stutter, and needs `IInv` for the deliveries and the start of a subscription.

**`MicrobitDemo`.**  `DemoInv` is the same for three channels, plus
`AssignedInTime`: button A assigns after it has notified, so between the two
`btna_old` may only run behind.  The proof first computes the attribute tables
from the macros: the entry `main` notifies, the CCC entry the host answers a
subscription with and the one a central finds by identifier belong to the same
characteristic.

**`BlePrograms`.**  One invariant, `ProgramsInv`, for six programs.  In the
newer two `ble_minimal`, `disconnected` does not clear the flag; it is right all
the same, because the host clears the CCC value of a dead link through the
program's own callback before the next link is up.  `OnMain` says that the program counter is one of the
program's statements, from which the order of start-up follows.

**`StepSensor`.**  An answer of 0 promises a pin, a callback and four registers, set one
statement at a time, each of which may fail.  `PlumbedSoFar` and
`WrittenSoFar` say how far each has got at every statement, a register being
written or its address among the refused; `LineFreed` says that after the dummy read
the line is held only if that read failed; and `ResultMeans` what the last answer still says once
later calls have failed.

**`Readings`, `PressureMonitor`, `AnalogLoop`, `GpioLoops`.**  The invariants tie
the place in the program to what the variables hold there.  Of the monitor: while
it waits for the status nothing has been read, and afterwards every byte is of
the current measurement or was left unread (`MonitorInv`).  Of the readings: the
low byte is of one measurement, and the arithmetic of 16 and 32 bits bounds the
error a high byte of the next one makes (`HighByteStep`).  Of the converter: what
is about to be written is the last sample, and it was measured (`AnalogInv`).

**`Numbers`.**  `prbs` is invertible: all positions but the last come back one
place up, and the bit that enters tells, with the tap that is still there, the one
that fell out (`ShiftLosesNothing`).  A register full of ones is its own successor
(`FullIsStuck`), so no other register leads to it, and the seed is another.

**Matrix programs.**  `LedMatrix` is proved for any call: the pin writes still to
do lead from what is lit to what was asked for.  `Updating` and `Leaving` say
which pins already have their new level; with masks of one bit nothing else in
the row can shine on the way.  `MatrixInv` adds what each program's variables are
at each of its statements, among them the walking bit that has left the byte.
`ScansInOrder` ties the LED that is lit to the one the shifted masks name.

**`FlashCalls`.**  That the driver polls whenever the chip works rests on three
facts: the command byte the chip holds is that of the running call, the chip
select is high when `init_spi` runs (a power cut sees to that), and a working
chip is not asleep, as the status of a sleeping one reads as anything (`IInv`).
`Refinement` needs more (`RefInv`): what was sent so far is the call's command
and data, and what a working chip is turning its array into is what `FlashArray`
says the call does (`WorkIsTheCall`).  The chip selects cells by page, sector or
block number, the array by address ranges; that they agree is where the division
lemmas are used.  A reset would break `IInv`; `FlashCalls` has power cuts only,
and `FlashMain` shows what a reset does.  `CallsGoForward` counts the statements
ahead, and half a statement for a chip at work: as the chip starts work only where
a call ends its transfer, no step of a call adds to the count.

**`FlashMain`.**  The array, and what the chip is turning it into, lie cell by
cell between the original and the wanted contents (`MainInv`).  Inductive with
what can be on the wire: no command but enable, read and the one program, and of
that a prefix of its data.  Programming any prefix over any state in between
stays in between, interrupted anywhere or not.  `ReadsBack` has two parts.  That
what is read is what the cells hold, resets or not, follows from `CellsInv`: a read
is only sent when the chip is awake and idle, since a reset goes back to `init_spi`
and the program before it waits.  That without a reset this is what was wanted
follows from `ReadInv`: the latch is set when the program starts, and the array is
what was wanted when the read does.  What the chip is turning its array into sets no
bit either (`Descending`), so programmed bits stay programmed; as the array is
what was wanted at the read, `SurvivesPowerCuts` is reduced to the program coming
there (`SurvivesOnceRead`), which is liveness.

**`Display`.**  `DisplayInv` has one part for each kind of call.

* Rectangles (`Filling`): pixels sent, full blocks times the block size and the
  remainder add up to the window, and the pixels sent so far are its first.
  That the k-th pixel goes to cell k of the window, and no cell twice, is
  division with remainder.
* Lines (`Lining`): the cells painted are those nearest to the ideal line, one
  for each step made, and `D` is twice the distance to the next half
  (`Along`).  The nearest cell is unique, which keeps the line gapless and thin,
  and swapping the ends or the axes changes nothing (`LineStraight`).
* Lines along an axis (`Siding`): what is painted and what the running line and
  the queued ones will still paint are together the whole.
* Circles (`Ringing`, `Discing`): `err` is x^2 + y^2 - r^2, never above 0 while the
  loop turns and never below 1 - 2r (`Rounding`), so every cell put is between
  r - 1 and r.  Rows up to y and beyond x have been passed, and when the two meet
  none is left out.  For a disc, what lies within r - 1 in a row that was passed
  is painted or queued.
* Texts (`Printing`): after n characters the boxes and dots are those of the
  first n.
* The end of a call (`CallsEnd`): five natural numbers, what is left of the
  text, of the circle, of the queued lines, of the line and of the block, which
  fall in dictionary order with every turn.  That they are natural numbers is
  where the invariants above come in; that a circle's turn lessens its number
  rests on `err` being at most 0, so that y grows.  A text longer than its index
  can count is left out, and never ends.

**The disagreements.**  Each of the four has a theorem with a premise, which says
that the one thing the finding is about does not happen: that the count does not
change where `stepcount_old` is assigned, that no central connects before the
callbacks are registered, that nobody writes between the load and the store, that
no voltage below zero is measured.  With the premise the comment is a theorem, so
there is no second cause.

### Only model-checked

* Every liveness property: `KeepsTelling`, `ButtonsKeepTelling`, `StepsAreCounted`,
  `MonitorGoesOn`, `LampsAnswer`, `EveryLedShown`, `SettlesOnPosition`,
  `PressesToggle`, `CallsReturn`, and of `SurvivesPowerCuts` that the program
  comes to its read.  Liveness and `ENABLED` are out of the prover's reach.
  That `CallsEnd` ends each call, and not only every chain of turns, would need
  well-founded induction, whose theorems take an operator.
* `MaximumLength`: true of some widths and taps and false of others, a fact about
  one polynomial, which the run computes for the board's 31 bits: after 2^31 numbers
  the register is where it was after one, so its period divides 2^31 - 1, which is
  prime.  Proved for every width is what the code has to do with it: the register
  never gets stuck and its sequence has no lead-in.

## Where the code and its comments disagree

1. `microbit_demo` lines 452 and 463: a step that arrives between
   `bt_gatt_notify` and the assignment of `stepcount_old` is taken for told.  If
   it is the last one, the central never learns of it.  `ble_stepcount` assigns
   first and does not have this (`KeepsTelling` against `StepKeepsTelling`).
   By `StepsLostThereOnly` this is the only place where a count is lost.
2. `microbit_demo` lines 37 and 438-439: advertising starts before the
   connection callbacks are registered.  A central that is quick enough is
   connected while `active_conn` stays `NULL`, for as long as it stays.  By
   `ReferenceLostThereOnly` no central that comes later is missed.
3. `ble_minimal` lines 103 and 182: `char_value++` loads and stores, and a write
   in between is lost although it was acknowledged.  By `WritesLostThereOnly`
   only there, in all the programs.
4. `3.1.0/analog_io` lines 4 and 34, the same in 3.7.0: a single-ended sample
   just below 0 V is held as an unsigned number, the pulse computed from it is
   longer than the period, the PWM driver refuses it and nobody looks: the output
   keeps its last duty.  (2.6.0 does the same, but promises no proportion.)  By
   `OutOfProportionBelowZeroOnly` every other sample has its share of the period.

Met while modelling, without a comment that says otherwise or without one that
speaks of the program's behaviour:

* A step after the assignment and before the notification in `ble_stepcount` is
  notified, and notified once more in the next turn.
* `2.6.0/ble_stepcount` and `2.6.0/ble_minimal` notify every central that is
  connected, subscribed or not.
* The `write_char` handlers of 3.1.0 and 3.7.0 copy four bytes whatever was sent.
* `lsm303_countSteps` sets `pStepCount` first: after -3, -4 or -5 a retry returns
  -1, the answer for "counting already", and nothing counts.
* Refused writes to the sensor's registers are not noticed, and 0 is returned; nor
  is a failed dummy read of the interface MCU (`3.7.0`, lines 41-42), after which it
  may go on holding the line.
* `write_led` of the demo (line 303) copies as many bytes as were sent into a value
  of four.
* The comment on `page_program` wants the low eight bits of its address to be 0; main
  passes `0xfed04`.  It works, as the four bytes stay within their page.
* The sector erase of the flash example is commented out (`main.c` line 17): what it
  reads back on a used chip is the old contents AND the data.
* The older sensor drivers do not wait for the interface MCU and do not make it
  release the line.
* The demo gives `z_mag` the identifier of `z_accel` (line 179); a central that
  looks within a service finds the right one all the same.
* `write_status_register` sends 0x04, which is the code of `write_disable`.
* A reset in the middle of `page_program` makes `init_spi` start the half-sent
  program; `write_enable` then meets a working chip and is lost, and so is the
  second program.
* `page_program` and the erases never return if the chip sleeps or is absent and
  its line reads as busy.
* `display_print`: the index has eight bits and the length sixteen; a text of 256
  characters or more is printed for ever.
* The status loop of `bmp280_readTemperature` turns for ever while the bus is
  down; bytes that could not be read are shown as they lay in memory.
* The pressure monitor prints over its last text: a shorter number leaves the last
  digits of a longer one on the screen (`3.1.0/bmp280_st7789/src/main.c` line 61).
* `3.1.0/st7789_display/src/main.c` line 29: the mask keeps 27 bits where the
  comment beside it says 31; the numbers are used in small ranges only.  `busy`
  guards `prbs` against interrupts, of which none calls it.
* `temperature` prints a value although the fetch failed.
* `button_a_interrupt` toggles the LED; its first lines speak of lighting it.
* The 2.6.0 display driver and the older matrix drivers test `gpio0` a second time
  where they have fetched `gpio1`.

## Not modelled

* Colours and `display_RGBToWord`, the display's initialisation bytes and delays;
  `hw_test`, which nothing calls.
* The compensation formulas of the pressure sensor and its calibration values.
* What `read_electronic_signature` and a caller's `read_status_register` return; the
  calls themselves are there.
* Device lookups that fail only if the device tree is wrong, in the flash driver.
* Writes to `2.6.0/ble_minimal` that are longer than its value; what an overrun of
  the demo's `led` does to anything but the matrix and the program's life.
* The panel beyond its edges: the model's panel goes on for ever, so a rectangle or a
  text that leaves the screen is drawn there.  On the board the addresses go to the
  display as they are, with the module's offset of 40 and 53 added in 16 bits.
* 16 bits of coordinates beyond `openAperture`'s ends of a rectangle, the corners of
  `drawRectangle` and `print`'s x, which wrap; the calls of the run and of the
  theorems end before they do.
* A repeated notification of an unchanged value, which does no harm.
* Console output, except where a property is about the value printed.
* Nothing of their own for the older copies of `matrix.c` and `display.c`: the
  newest ones stand for them, which differ in headers, device names and the SPI
  frequency, and in the test of `gpio1` named above.
* `*/build`: generated.

## What could come next

* Safety halves of `SettlesOnPosition`, `PressesToggle`, `StepsAreCounted` and
  `MonitorGoesOn`, as they are proved for `CallsReturn` and `EveryLedShown`.
* The compensation formulas of the pressure sensor, whose products come close to
  the width of their integers.
