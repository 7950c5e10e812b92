# Battle City on FPGA: TLA+ models, checks and proofs

The game is a two-player tank battle in hardware: SystemVerilog modules on one
50 MHz FPGA, clocked by the vertical sync of the VGA picture (`VGA_VS`, "a
frame"), and a small C program on a soft processor that copies the keys of a
USB keyboard into four registers of the hardware. This directory models the
game logic, checks it with TLC on small instances and proves the main results
with TLAPS for every value of the constants.

## The system

| part | source | state | operations | modelled in |
|---|---|---|---|---|
| health bars | `health.sv` | bar, dead flag, pending hit, last collision signal | one clock edge | `Health` |
| triggers | `bulletcounter.sv` | 15 states COUNT / IDLE / WAIT | one clock edge | `KeyCounter`, `Gunner`, `Display` |
| game state machine | `gamestatemachine.sv` | 10 states | one clock edge | `GameStates` |
| tanks and bullets | `ball.sv`, `ball2.sv` | position, motion, direction of the tank; position, motion, direction, flag of three bullets | one clock edge, asynchronous reset | `Tank`, `Driver` |
| collision handler | `collision_handler.sv` | none (combinational) | two wires | `BattleCity` |
| top level | `finalproject.sv` | keycode registers, `game_reset`, KEY0 | wiring | `Controls`, `Round`, `BattleCity` |
| main loop | `usb_kb/main.c` | last report, registers, hex display, LEDs, running and error flags, class polled | poll, `setKeycode`, `printSignedHex0/1`, reset after an unplug | `KeycodePort`, `Panel`, `ReportLoop`, `UsbHost` |
| frame clock | `VGA_controller.sv` | pixel clock, counters, `hs`, `vs` | both edges of the pixel clock, KEY0 | `VgaController`, `Display`; its effect on the game in `Round` |
| USB host | `transfer.c`, `MAX3421E.c` | task state, device table, interrupt flags of the chip, timer | interrupt, one call of the task, chip reset | `UsbHost` |
| class probes | `HID.c`, `transfer.c` | packet size of the device's endpoint, the probe under way | four requests, the walk over the descriptors | `Enumeration` |
| USB transfers | `transfer.c`, `HID.c` | stage, data toggles, counts of NAKs and missing answers | control transfer, poll of a device | `ControlTransfer`, `Transfer`, `Bus` |
| animators | `animator_fsms.sv`, `clock_divider.sv` | divided clock, picture of each tank | divided clock edge | `Animators`, `Display` |
| colour mapper | `Color_Mapper.sv` | pixel output | | not modelled |

How they interact: the processor writes the keycode registers whenever a poll
brings a report, independently of the frame clock. At a rising edge of `VGA_VS`
every module reads the registers and the wires as they were before the edge and
moves. Tanks drive the collision handler; its wires go to the health bars (a
hit costs ten) and back to the tanks (a hit ends the bullets' flight); the bars'
dead flags go to the state machine and to the tanks; the keys O, Y and M refill
the bars and rearm the triggers, Y and M also move the state machine. The push
button KEY0 resets the tanks asynchronously, and it resets the VGA controller,
whose `vs` is the clock of everything else.

On the processor one loop looks at the interrupt of the host chip, calls the USB
task once and polls the running device. The chip and the task share the task state:
the interrupt handler overwrites it, or adds one to it, whatever the task was doing.
The device table is filled by the task and the probes and emptied on a disconnect.

What is hard here: registers that follow each other a frame late (hit, bar, dead
flag, state machine); blocking and non-blocking assignments in the same block;
four case blocks writing the same registers; one wire that must mean the same to
two modules at one edge; keys that move from register to register while the frame
clock reads them; a reset that stops the clock it needs; registers without a
power-up value; devices that come and go between any two steps of the main loop,
interrupt flags that are cleared after the bus was looked at or served too late, and
acknowledgements that are lost. `PROJECT.json` lists each hazard with its line and the properties
that cover it.

## Modules

Each hardware module is a set of variables that are functions of the tank (the
source instantiates everything twice), one operator per register (`NextHealth`,
`NextPos`, ...) and one operator for the clock edge (`HealthClock`, `TankClock`,
...) that takes the module's inputs as parameters and says what EVERY register of
the module gets. Modules that compose them conjoin the clock operators, so that
a frame is one step of all registers.

* `Controls` - the set of tanks, the four register slots, the game keys and the
  wire `game_reset`.
* `Health` - `health.sv`. Inputs of a frame: reset, shields, collisions.
* `KeyCounter` - the triggers; the fifteen states of the source are records
  (mode, bullet, tick). `Gunner` adds players who press keys between frames and
  the history needed to talk about "the last shot".
* `GameStates` - the state machine with the source's state names.
* `Round` - state machine, both bars, game keys and KEY0. Tanks and keyboard are
  free inputs: `collision` is any pair of wires, `key` any game key.
* `Match` - the abstract specification: menu, play, blast, over, and bars that
  lose one hit at a time or are refilled. No registers, no edges, no wrap-around.
  `Round` implements it (`ImplementsMatch`): the phase is a function of the state,
  the bars are the health registers.
* `Tank` - `ball.sv` and `ball2.sv` as one module. The grounds (the ROMs with the
  maps are not in the repository) and all sizes are constants; the ghost variable
  `loaded` tells whether a frame has come since the tanks were last reset, the first
  of which takes the bullets to them. `Driver` adds the players' keys, free hits and
  KEY0 (`DriverReset`).
* `BattleCity` - the top level: tanks, triggers, collision handler, bars, state
  machine, four registers, KEY0. It implements `Round` (`ImplementsRound`) with
  the collision handler's wires for `collision` and the game key in register 0
  for `key`.
* `VgaController` - the counters and sync signals, half a pixel at a time, with any
  sizes. `Animators` - the clock divider and the two picture registers. `Display`
  composes both with `Health` and `Gunner`: what was one step of the game, a frame, is
  here the rising edge of `vs` among many steps of the pixel clock (`Draw`, `Rest`), and
  keys come and go between any two of them (`KeyChange`). Its history variable `cost`
  adds up the hits that the present contact of a tank has been charged with, and `since`
  the pixels since the last frame.
* `KeycodePort` - the processor's side: reports of the keyboard are copied one bus
  write at a time. The keyboard itself is not in the repository; it is modelled
  from its use (a report lists the held keys, oldest first).
* `Panel` - `setLED`, `clearLED`, `printSignedHex0` and `printSignedHex1` as functions
  of a panel of lamps and four hex digits, with C's signed characters, division and the
  bytes that are ored into the register; and, next to them, what a reader of the panel
  expects (`Decimal`, `Shows`). `ReportLoop` composes `Panel`
  and `KeycodePort` to what `main` does with the reports of a keyboard and of a mouse.
* `UsbHost` - the loop of `main`, `MAX3421E_Task` with the bus probe, `USB_Task` and
  the class probes. A turn of the loop is the steps `irq` (read the flags, probe the
  bus), `ack` (clear the flags), `task`, `main`; after a running device is gone also
  `reset` and `clear`. Devices are plugged and unplugged between any two steps. The
  task state keeps the numbers of the source, since an interrupt adds one to it. A
  control transfer, and a whole probe, is one step.
* `Enumeration` - the same program with one step per request: reading the device
  descriptor, the loop over `ClientDriverTable`, and the probes of `HID.c`, which read
  the head of the configuration, then the whole of it, walk over its descriptors, take
  the packet size of an endpoint, and set configuration and protocol. Devices come and go between any two
  requests. It implements `UsbHost` (`ImplementsUsbHost`): while the probes run the
  abstract tables are those the probes found (history variable `found`), and a device
  counts as configured when the probe returns.
* `PacketLimits`, `SetupPackets` - the limits of `XferDispatchPkt`, and the requests of
  `transfer.h` reduced to: does it read, how much is asked for, how much is there.
* `ControlTransfer` - `XferCtrlReq`, `XferCtrlData`, `XferCtrlND` and `XferInTransfer`
  packet by packet: setup, data packets of the device's size with their toggles,
  status; every packet may be lost, answered by NAK, or its handshake lost. It
  implements `Request`: what is reported as done has been carried out once, what is
  reported as failed at most once.
* `Transfer` - one poll of the keyboard, packet by packet: NAKs, missing answers, lost
  acknowledgements, toggle errors, the saved toggle. `ReportChannel` is its abstract
  specification: reports are made and got one by one, in order, each once, except that
  a new configuration drops what waits. `Bus` composes both kinds of transfer: one
  thread, one at a time.
* `MCDisplay`, `MCDriver`, `MCBattle`, `MCReportLoop`, `MCBus`, `MCEnum`, `MCUsb` - small
  pictures, grounds, inputs, requests and devices for TLC.
* `HealthProofs`, `TankProofs`, `RoundProofs`, `BattleProofs`, `DisplayProofs`,
  `LoopProofs`, `UsbProofs`, `TransferProofs` - theorems and proofs.

Operators whose comment begins with "mutant" are defective variants of the
operator that follows them. No specification uses them; each shows that some
property notices the defect.

### Decisions worth knowing

* Power-up. The source gives most registers no initial value. The FPGA brings
  them up as zero; a state register comes up in the state encoded as zero or, for
  the triggers, possibly in the state it is reset to; a tank's position is zero or
  its start. `*Init` allows these.
* KEY0. While it is down `vs` is held low, so no frame comes; letting go makes
  `vs` rise, which IS a frame, taken with the reset wire already low. Hence
  `ReleaseKEY0` is a clock edge and `Frame` needs the button up.
* `TankReset` is what the source's reset branch assigns and no more: it clears the
  velocity of bullet 1 only and moves no bullet.
* The shields are tied to zero in the top level; `Health` keeps them as inputs.
* The map ROMs are read with the fast clock, long before the next frame: they are
  functions of the position.
* The chip and the devices are not in the repository. What `UsbHost` takes from the
  way the code uses them: the line status shows the bus as it is now; a device at the
  host's speed is seen as J, one at the other speed as K; a device that comes or goes
  raises `CONDETIRQ`, and a bus reset may raise it too (`MAX3421E.c:142`); the end of a
  bus reset raises `BUSEVENTIRQ`; a reset of the chip clears its flags. Only
  `CONDETIRQ` pulls the interrupt pin, the handler then serves whatever flags are set.
* A transfer is one step of `UsbHost` and of `Enumeration`; it may fail at any time,
  with or without its effect on the device, and can succeed only when the device
  that is plugged in answers at that address and speed. A handshake of `SET_ADDRESS`
  may be lost on either side. `ControlTransfer` is what justifies "done once or failed".
* The results of all descriptor reads but the first are ignored by the code
  (`transfer.c:308-324`): they are one step, `GetOtherDescriptors`, that changes nothing
  else. What the strings contain only goes to the console. The GPX interrupt changes
  no state and is left out.
* The devices of `Enumeration` send descriptors of the standard's lengths. At one of
  length 0 the walk (`HID.c:47-51`) would stand still for ever; nothing in the code or
  its comments covers that case. Descriptors beyond the 256 bytes of the buffer are
  not seen, one that begins within it is. The probes assume
  a "single configuration, single endpoint" (`HID.c:116`); the model asks for less
  (`EndpointAssumption`): there may be several, but the first interface of a keyboard or a
  mouse has an endpoint before the next interface begins. Without it the walk would take
  the packet size of an endpoint of that other interface. A probe that finds no endpoint within the buffer
  returns `FALSE` with the entry of the device taken, as in the code.
* The polls go to endpoint number 1 whatever the descriptors say (`HID.c:211, 219`). The
  number the walk stores (`HID.c:81, 172`) is never read, so it is not modelled; a device
  whose endpoint has another number would still be asked at 1. What the polls do take
  from the walk is the size of the packets, by which they tell the end of a report
  (`transfer.c:217`), and this is what `PollsKnowThePacketSize` is about.
* The clock of `USB_Task` is `(alt_nticks()*1000)/alt_ticks_per_second()` in 32 bits. It
  returns to 0 after 4294967, about every 72 minutes. When the settle time is taken less
  than 200 ms before that, `usb_delay` may be a time that the clock never passes:
  `TaskAttached` sets `usbDelay` to "ahead" or "beyond", and `Settled`, the clock passing
  the time, exists only for the first. The deadline of `XferDispatchPkt` is taken from
  the same clock; the model takes it that the chip completes what it is asked for.
* In `Transfer` a report fits in one packet, as in the boot protocol, and a transfer
  given up at the five second deadline has not happened. In `ControlTransfer` a device
  that misses the end of a transfer starts anew with the next setup packet.
* The smallest signed character, -128, stays negative when `main` negates it. The digits
  it prints are no digits, on the right half they run over into the left:
  `PanelShowsTheValues` leaves this value out and `Panel` models what happens.
* The animators' reset is synchronous to a clock that the same wire stops
  (`clock_divider.sv:11`, `finalproject.sv:330-337`), so that they never see it, whatever
  the comment at `finalproject.sv:236` says (see below). The divider's comment says 16;
  its output has the frame clock divided by four.
* `MAX3421E_reset` waits for the oscillator without an end ("timeout after 256 attempts"
  only prints, `MAX3421E.c:115-120`); the model takes it that the oscillator starts.

## Runs

| run | question | bounds |
|---|---|---|
| `health` | do bar, dead flag and edge detector stay consistent under any contacts, shields, resets, and does a contact cost one hit however long it lasts? one shot per press, spaced shots, a gun that comes back? does the game move outside the picture, at equal distances, whatever KEY0 does? does a death get through? | one tank (the tanks share nothing but clock and resets), a bar of two hits of 10 in six bits; three bullets, three WAIT states; a picture of 5 lines of 4 pixels, 1 by 2 of them visible |
| `round` | can a round blow up, end or restart wrongly? do deaths end matches and explosions end? does it implement `Match`? | none: the source's numbers, all game keys |
| `driver_fire` | do bullets keep their course, tanks keep the speed limit? | one tank, one bullet, one WAIT state, 8 x 8 pixels with a wall around, tank of 2 pixels, bullets of 3 pixels per frame, single keys, fire with steering, two steering keys |
| `keycode_port` | can a held key vanish from half-written registers? do registers follow the keys? does the panel show what was polled? | three keys (one of them the byte -128), two registers, reports of three; three mouse reports with both signs, hundreds and all buttons |
| `usb` | whatever is plugged in and out, between whatever requests: do probes and polls find their table entries, and does a running device have the address, class, configuration and packet size that are polled? does the lamp tell? does enumeration come to an end, unless the clock wraps, and is a device that is gone given up? does it implement `UsbHost`? | a slow keyboard with a second interface whose packets are smaller, a mouse, a card reader without a driver, a keyboard whose endpoint is beyond the buffer, a device with broken lines; two addresses |
| `transfer` | is an answer read whole and once, a request carried out once, no report lost, doubled or reordered? does every transfer end? | 3 NAKs, 2 missing answers, 3 reports; the source's requests and lengths, packets of 8, 16 and 64 bytes |
| `battle` | do hits come from bullets in flight, does a hit end the volley, does the whole implement `Round`? | two tanks, one bullet each, one hit per bar, one WAIT state, 12 x 12 pixels |

The small grounds keep the proportions that matter: a tank is wider than a pixel
and a cell, a bullet flies further per frame than a tank drives but not through a
tank, coordinates wrap, walls stop tanks and bullets at different places. In
`battle` both tanks can be hit, also at the same frame; both death screens are
reached, each also with both tanks dead; a bullet can be fired at the frame a hit
is registered. `keycode_port` has fewer registers than a report has keys, so that
keys move up into sight and through the registers. `usb` has both speeds, each class
the probes tell apart and none, addresses that run out, a walk that meets an interface
of the other class first, several endpoints, or the end of the buffer; a plug event may
come between any two steps of the loop and any two requests. In `transfer` both limits
are reached, also in mixture; answers end in a short packet, in a full one at the end
of what was asked for, and in one packet when it holds all; two reports bring the
toggle round to its first value, a third uses it again. The picture of `health` has every part of the real
one: visible pixels, sync pulses and the margins before and after them.

`usb_clears` and `usb_noticed` use `UsbHost` itself with the devices of `MCUsb`.

The runs whose property is expected to fail show where the code disagrees with what the
repository says (each is one property and a short trace):

| run | says | code does |
|---|---|---|
| `round_key0` | "menu button or reset" (`gamestatemachine.sv:13`) | KEY0 stops the clock that would sample it; the state stays |
| `round_verdict` | `death_screen_P1` is "make player 1 win" (`gamestatemachine.sv:56`), and shows the picture `p1win`, `death_screen_P2` the picture `p2win` (`Color_Mapper.sv:64, 98, 1411-1426`) | `death_screen_P1` is entered when tank 1 has died (`gamestatemachine.sv:52`), `death_screen_P2` when only tank 2 has: each names the loser |
| `driver_shared` | "independent movement" (`README.md:11`) | three key codes of `ball2.sv` are hexadecimal in the block for `keycode2`; with two keys of player 1 held, player 2's key is ignored |
| `usb_clears` | "clear device data structures" (`MAX3421E.c:170`) | the handler adds one to that state when the flag of an earlier bus reset is still set (`:228`): `0x02` is no state, and nothing is cleared |
| `usb_noticed` | "check if anything is connected" (`MAX3421E.c:193`), "ack bus state change" (`:232`) | the flag is cleared after the probe: a device plugged in between the two is not noticed |

Other places where a comment and the code differ follow from the modules without a run:

* "O and M reset all modules except tanks" (`finalproject.sv:236`): the state machine
  looks at M only, O leaves the match or the explosion running.
* The same comment, and the reset ports of `animator_fsms.sv:10-12`, say that the keys
  reset the animators of the tanks. They do not: the reset holds the divided clock down
  that would have to carry it (`clock_divider.sv:11-15`), as KEY0 does in `round_key0`. The
  pictures stay as they are, also when everything else begins anew. Nothing but the look
  of a tank depends on it.
* Explode "if you hit a bomb or bullet hits you" (`gamestatemachine.sv:147`): the bars
  come up empty and Enter does not fill them, so that the first match after power-up
  explodes unless O, Y or M was pressed.
* "initial settle 200ms" (`transfer.c:277`): the addition shown by `usb_clears`, made to
  `USB_STATE_ATTACHED`, skips the state that starts the settle timer.
* "waiting for settle timer to expire" (`transfer.c:280`): it need not, when the clock
  wraps first. The task then stays in `SETTLE` until something is plugged in or out.
  `HostSettles` names this as the one way to hang.

### Fairness

`Frame` of `Round` is weakly fair: the pixel clock runs by itself and the vertical
counter wraps. `Display` says so step by step: there only the two edges of the pixel
clock are fair (`Draw`, `Rest`), frames come from counting. `Frame`, like the pixel
clock, is disabled while KEY0 is down, so the liveness properties assume that the button
is not held for ever (`FramesKeepComing`; in `DeathReachesTheGame` and `GunComesBack`,
that it is left alone in the end). Nothing is assumed of the players, and no explicit
fairness of key changes, button or hits is used anywhere.

In `ReportLoop` the program goes on with a report it has got (`CopyKeys`, `PrintKeys`
weakly fair). That it gets one is not assumed to be fair, since it is not: the keyboard
may stay unnoticed (`usb_noticed`), the task may stay in an error, any poll may fail or
be answered by NAK (`main.c:167-174`). `RegistersFollowTheKeys` has the hypothesis
instead, that the report keeps coming level with the keys that are held (`ReportsKeepUp`),
and says what the program must then do: the registers do so too.

In `UsbHost` and `Enumeration` the main loop runs on, a bus reset ends and the settle
time passes (`MainLoop` or `EnumLoop`, `EndBusReset`, `Settled` weakly fair: processor,
chip and timer run by themselves), unless the time lies beyond the clock, where `Settled`
is disabled; nothing is assumed of the players, of the connection
interrupts of a bus reset or of the success of any transfer. Such an interrupt, when it
is served after the task has seen the end of the reset, starts the attachment and with
it another reset: this can go on for ever, so `HostSettles` says that the host settles
unless interrupts come for ever or the clock has wrapped over the settle time. In `Bus` the program runs on (`BusProgram`: the packet
that is next, or the poll that is next); device and wire may do what they like, and it
is the limits that bring every transfer to an end.

## Proofs

Every invariant and every action property or refinement of the passing runs is a
theorem: it holds for every number of tanks, bullets, hits, registers, keys, addresses
and retries, every damage, cool-down, ground, picture, register width, descriptor and
input that satisfies the named assumptions of the modules. These are:

* `TanksAssumption`, `TwoTanks` (at most, or exactly, two tanks), `HealthAssumption`,
  `KeyCounterAssumption`, `TankAssumption`, `PadsAssumption`, `InputsAssumption`,
  `PortAssumption`, `MouseAssumption`, `PacketAssumption`, `ControlAssumption`,
  `TransferAssumption`, `UsbAssumption`, `EnumerationAssumption`: the types and ranges of
  constants.
* `MuzzleAssumption`: the point of a tank where bullets wait is on the tank (16 of 32).
* `VgaAssumption`: the sync pulses are outside the visible part, the vertical one is one
  pulse (lines 490 and 491).
* `KeyAssumption`: keys are bytes.
* `EndpointAssumption`: see above.

What the proofs rest on, module by module:

* `HealthProofs`: `HealthInv` is inductive. `NoHitPendingOnEmpty` alone is not: a
  pending hit must also be known to have been seen at the frame before
  (`PendingHitSeen`), otherwise the edge detector could raise a second hit while
  the last one is being charged and the bar would reach zero with a hit pending.
  From it: type correctness, no underflow, dead only when empty, the steps of the bar.
* `TankProofs`: first the trigger. `GunnerInv` relates how far it has come to what the
  history has seen: in WAIT state k the key was lifted and at least k frames have
  passed; in a COUNT state the key was lifted and all of them have. Then the tanks:
  `DriverTypeOK /\ ShotKeepsCourse` is inductive; the type part carries the wrap-around
  of positions and that any combination of keys yields a single step. From it: bullets
  keep course and fly straight, tanks move at most one pixel per frame.
* `RoundProofs`: the invariant of the bars holds in the round, and every step of
  the round is a step of `Match` or a stutter, which is where the modular
  subtraction becomes an ordinary one and the dead flag an empty bar. From the
  invariant also `ExplosionNeedsDeath`, `RematchIsFresh` and that only M leads back
  to the menu.
* `BattleProofs`: every step of the whole game is a step of `Round`, of `Health` and of
  `Driver`, or a stutter of it; what is proved of these holds in the game. (For `Driver`
  the registers must be free to hold anything there: `Pads = [Slots -> Codes]`; the run
  of `Driver` takes fewer.) What only the whole game shows needs `BattleInv`:
  - `HitsAreShots` is not inductive, for the positions of bullets are not those of
    tanks. `WaitingBulletsFollow` is: a bullet that is not in flight is where its tank
    was one step ago. Then a waiting bullet that is inside the other tank puts the two
    tanks within a tank's size and a pixel of each other, modulo the width of the
    coordinates: they are not `Apart`. This is where `MuzzleAssumption` is needed.
  - `HitEndsVolley` is inductive with the types and `HealthInv`: a hit becomes pending at a
    frame at which the collision wire is up, and that wire takes every bullet of the
    enemy out of flight at the same frame, except one whose trigger fires just then.
* `DisplayProofs`: `DisplayInv` says where in the picture the frame clock is. The
  sync signal shows whether the line below the last pixel drawn belongs to the pulse
  (`SyncTellsTheLine`), so that it rises only at the end of the pulse; the counter of
  pixels since then tells how far behind that place the counters are, at most one
  picture (`SinceTellsThePlace`). From it: frames come in the blanking and are one
  picture apart. `Display` implements `Health` and `Gunner`, whose theorems so hold with
  every half pixel a step. `OneHitPerContact` is not inductive: a contact that has cost
  its hit must not have another one pending (`PendingHitIsFirst`), which rests on
  `HealthInv`, for a hit is pending only at the frame after the signal rose, and a bar only
  falls when one is.
* `LoopProofs`: `HeldKeyStaysVisible` is not inductive; `PortInv` adds that the registers
  already written hold the report (`RegistersWritten`), that a key that was reported and is
  still held has moved to no later place (`SeenKeysMoveDown`; letting go of another key takes it
  out of the sequence and moves what is behind it down), and that a kept key is in the
  register it had until that is rewritten, and by then in the lower one it has moved to
  (`KeptKeysAreWritten`). `PanelShowsTheValues` is arithmetic: the quotients of C are
  those of the decimal digits when the value is not -128, the digits are less than ten,
  and oring them at two places of the register is writing two digits.
* `TransferProofs`: `TransferInv` adds to `TogglesAgree` that acknowledgements and
  reads never run ahead of the reports (`AckedAreMade`) and that a poll that goes on has
  reached neither limit (`LimitsAhead`), without which a count could leave its type. From
  it every step is a step of `ReportChannel` or a stutter. The theorems are about
  `BusSpec`, so the control transfers that share the wire are steps of it too.
  For these `CarriedOnce` is inductive: nothing is carried out before the status stage, and
  in it the stage the device is in tells whether it has been, so that a status packet sent
  again after a lost handshake does nothing more. With it they implement `Request`. `AnswerIsExact` needs `AnswerInv`: while the data stage runs, the
  host holds the full packets that it has accepted (`FullPackets`), whose number is the
  device's own or one less, told apart by the toggles; a packet that the host takes for
  the last one is the end of the answer because the packet size is known by then, or is
  that of the first read, which asks for the smallest packet only (`SizeKnown`).
  `BusTypeOK` needs that a packet under way has reached neither limit (`CountsAhead`).
* `UsbProofs`: `UsbInv` holds for any devices and any number of addresses. A running
  device is the one that is polled because of these facts: the probe of an interrupt
  leaves no running device between its steps (`ProbedPlaces`), the flag
  of main is up only while a device runs or in the turn in which it is gone, so that a
  new device finds it down and its class is looked up (`FlagIsFresh`), addresses are taken lowest first so that the device that is being
  configured has the highest (`LowestFirst`) and is the one whose class main finds, and
  a probe that succeeds leaves address and endpoints of that device (`RunningEntry`,
  `RunningDevice`). `PollsReachTheDevice` alone says nothing of the states on the way.
  `LampIsRight` rests on `LampInv`: the lamp is lit exactly while the flag of main is
  up, except while everything is reset after a device is gone, where the flag is down
  and the lamp may still be lit; and at the probe of an interrupt the
  flag tells whether the state is running.
  `Enumeration` implements `UsbHost` because of `EnumInv`: it adds to `UsbInv` what is
  known between two requests of a longer state (`CallInv`), that is where the task stands
  while a call is under way (`PlaceOfCall`), that a device which has been reset is not
  ready before it is probed (`NotReadyYet`), and which address, endpoints and class the
  probes so far have entered (`ProbesSoFar`, `DeviceSoFar`). Reading the descriptors is
  then one step of the host, taken with its first request, and probing one step, taken
  with the last; the requests between are stutters. `EndpointsInPlace`, `PollsReachTheDevice` and
  `LampTellsRunning` are theorems of `EnumSpec`, the host with every request a step.
  `PollsKnowThePacketSize` needs `PacketSizeInv`: while the probe configures a device that
  still answers at its address, the packet size in the table is that of an endpoint of
  its first interface. For that the walk is shown to stay in that interface for every list
  of descriptors: the buffer holds a prefix of the configuration (`BufferIsPrefix`), and an
  endpoint taken from a prefix is the first behind the first interface of the whole
  (`TakenFromFirst`). `UsbTypeCorrect` says which numbers an interrupt can make of the
  task state: those of `USB.h` and two others (`Overrun`), 0x02 and 0x05, one more than
  `INITIALIZE` and `ILLEGAL`. That the first does come about is what `usb_clears` shows.
  `EnumTypeOK` needs besides that the loop over the probes ends behind the table
  (`ProbeNumber`).

Only model-checked: the liveness properties (`DeathReachesTheGame`, `GunComesBack`,
`DeathEndsMatch`, `RegistersFollowTheKeys`, `HostSettles`, `UnplugEndsRunning`,
`TransfersEnd`), because fairness and ENABLED are beyond the prover; and for which
configurations the probes succeed, which is in the sizes and classes of the descriptors
that the run `usb` takes (`Buffer` counts with a fold). Proved only, by no run:
`HealthStepsDown`, `RoundTypeOK`, `MenuOnlyByM`, `BulletsFlyStraight`, and the
refinement of `Driver` and `Health` by the whole game, and of `Health` and `Gunner` by
`Display`.

## Not modelled

Pixels, palettes and sprite ROMs, and with them the colour mapper, which has no state;
the seven-segment table; pins; the generated SoC and board support package; modules
that the top level does not use (`shield.sv`, `lfsr.sv`, `map_generator.sv`,
`bulletcontrolfsms.sv`, `posedgedetector.sv`); `.bak` files. Metastability between the
processor's registers and the frame clock is left out: a frame reads each register
either before or after a write.

Of the USB code: console output, the strings, the registers of the chip behind each
packet, requests with data to send (the code refuses them), and a transfer that
completes after it was given up at its deadline (what the chip does then cannot be seen
in this repository).

Behaviour the modules show and no property forbids, since nothing in the repository
says otherwise:

* Walls: the code looks for a wall only in the direction the tank points in before it
  turns, and moves by the motion of the frame before. With keys that alternate a tank
  gets into a wall as deep as one likes.
* Game keys are only looked for in register 0: with a tank key held first, M, Y and
  Enter are not seen.
* Tanks are not stopped by each other: when they overlap, a waiting bullet of one is
  inside the other and costs it a hit. `HitsAreShots` speaks of tanks that are apart, and
  of frames after the first one that follows KEY0, which moves no bullet.
* The bars come up empty at power-up and Enter does not fill them; damage taken in the
  menu is kept.
* When the keyboard is unplugged its last keys stay in the registers; when the mouse is,
  its buttons stay lit.

## Plan

1. (done) `Health`, `KeyCounter`, `GameStates`, `Round`, `Match`; `Tank`, `Driver`;
   `KeycodePort`; `BattleCity`; `UsbHost`; `Transfer` and `ReportChannel`; their theorems.
2. (done) `ControlTransfer`, `Request`, `Bus`; `Enumeration` refining `UsbHost`; `Panel`
   and `ReportLoop`; `VgaController`, `Animators` and `Display`; the lamp; the proofs of
   `ImplementsUsbHost`, `ImplementsRequest` and `AnswerIsExact`.
3. (done) Proofs: `HeldKeyStaysVisible`, `PanelShowsTheValues`; `PollsKnowThePacketSize` for
   every list of descriptors; `GameMovesInBlanking` and `FramesAreEven` for every picture;
   `HitsAreShots` and `HitEndsVolley` for every ground; `OneHitPerContact`; the type invariants; the refinement
   of `Health`, `Gunner` and `Driver` by the modules that compose them.
   To come: the theorems of `RoundProofs` stated for `BattleSpec`, those of `HealthProofs`
   and `TankProofs` likewise.
4. `ReportLoop` composed with `UsbHost`: what the registers show after an unplug.
5. `Screen`: the priority of the screens in `Color_Mapper.sv` over `GameStates`.
