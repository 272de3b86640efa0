# TLA+ models of the IR77 firmware's command channel

This directory holds TLA+ models of the parts of `src/` whose correctness depends on event order:
- the secure TCP hook;
- the ecmd command dispatcher;
- the continuation handler `1w list`;
- the interrupt-fed queue drains `ir receive` and `fs20 receive`;
- the configuration and port commands (`ip`, `mac`, `show ip/mac`, `io set/get`, `pin get/set/toggle`);
- the servo pulse generator (`src/hardware/pwm/pwm_servo.c`): the timer-1 overflow interrupt against `setservo`.

Each part has a module. TLC checks the modules through the MC modules and the `.cfg` files listed below. `PROJECT.json` lists:
- the components;
- the runs, with their expected outcome;
- a mutant for every property of a passing run;
- the source lines each definition models (`map`);
- the findings;
- the hazards of the code.

## The system and how its parts interact

A TCP connection to the device passes through `network_handle_tcp` (`src/net/handler.c`). uIP calls this hook once per event: handshake complete, new data, retransmission request, or poll. The hook runs four stages in order. An `uip_abort(); return;` ends the call at once. `goto auth_out` skips only the application.

1. **RC4 inbound** (lines 71-114). This stage runs in RC4 builds.
   - The first 8 bytes the peer sends seed the inbound keystream and are stripped. Fewer than 8 bytes abort.
   - A retransmission aborts, because the outbound keystream cannot be rewound.
   - New data is deciphered.
2. **Challenge/response** (116-192). This stage runs in AUTH builds.
   - On connect, a random 8-byte challenge is sent and stored in `appstate`. The application is not called.
   - A retransmission resends the challenge.
   - New data must start with the enciphered challenge, or the connection is aborted.
   - On success the response is stripped, and the hook reports `UIP_CONNECTED` to the application.
3. **Application callback** (195-217).
4. **RC4 outbound** (219-248). On the first call, the hook prepends a clear IV to what the application sends. After that, everything sent is enciphered.

The application behind the hook is the ecmd front end. It hands each command line to `ecmd_parse_command` (`src/ecmd/ecmd.c` 194-261). The dispatcher:
- rejects lines of two characters or fewer;
- finds the first table entry whose name is a case-insensitive prefix of the line;
- calls that entry's handler with the rest of the line;
- translates the result: -1 becomes "parse error" (12), 0 becomes "OK" (2), and any other value passes through.

A handler that returns a value r ≤ -10 has written `-r-10` bytes and wants to be called again. This is the continuation protocol of spec §4.3. `1w list` uses it, keeping its search state in the process-wide `ow_global`.

Queue-drain handlers (`ir receive`, `fs20 receive`) read a queue that an interrupt fills. They write as many fixed-width records as fit, then clear the whole queue.

Configuration handlers change state that outlives the connection: `ip` and `mac` parse their arguments with `sscanf` and save them to the EEPROM configuration, which `show ip` and `show mac` read back. `io set ddr/port` and `pin set/toggle` write the port registers in `cfg.options`, and `pin get` reads the pin back through the named-pin table's `active_high`.

## Modules

| module | models | state | actions |
|---|---|---|---|
| `NetHandler` | `network_handle_tcp`, one connection, its peer and the link | the connection's RC4 flags and keystream positions, `auth_okay`, `auth_challenge`; the application's view; the device's unacknowledged segment; the peer's keystreams and the challenge it read | `Connected(n)`, `NewData(n)`, `Rexmit`, `Poll` (uIP events, each one whole call of the hook); `Lose` (link); `PeerSendIV`, `PeerSendResp`, `PeerSendApp`, `PeerReceive` (peer) |
| `SecureChannel` | what the hook promises in an AUTH build: the AuthGate of spec §4.1 and the delivery it gates (abstract) | `auth_state`, `vouched`, `sent`, `delivered` | `Connect`, `Vouch`, `Send`, `Authenticate`, `Deliver`, `Abort` |
| `EcmdParse` | the pure dispatcher: `MatchesPrefix` (strncasecmp_P), `Scan` (the loop of 214-243, RECURSIVE), `Translate`, `ecmd_parse_command` | none | none |
| `Ecmd` | one call of the dispatcher over every small table and command | `table`, `cmd`, the handler's result `code`, `reply` | `Dispatch` |
| `OnewireList` | `parse_onewire_list` with the global lock and several connections | `bus`, `lock` (`ow_global.lock`), `cursor` (`ow_global.current_rom`), each connection's state and output | `Request(c)`, `Continue(c)`, `HangUp(c)` |
| `RecvQueue` | `parse_ir_receive` or `parse_cmd_recv_fs20`, and the receive interrupt | the handler's record length `recLen`, the queue, the handler's `pc`, `l`, `outlen`, `len`, and records written | `DrainCall(n)`, `DrainEmit`, `DrainExit`, `DrainClear`, `Receive` |
| `ConfigCommands` | `parse_cmd_ip`, `parse_cmd_mac`, `parse_ip`, `parse_mac`, `show ip/mac`, `io set ddr/port`, `io get ddr/port/pin`, `pin get/set/toggle` | the stored `ips` and `mac`, the `ddr` and `io` registers, the last command's result (with the port and value an `io get` printed); history of the last accepted values, of each pin's last set/toggle reply and of what the last `io set` wrote into each watched bit | `IpCmd`, `MacCmd`, `IoSetDdr`, `IoSetPort`, `IoGet`, `PinGet`, `PinSet`, `PinToggle` |
| `PwmServo` | `SIG_OVERFLOW1`, `setservo`, `init_servos` | `Pulslength` (16-bit timer reloads), `servoindex_half`, `setservo`'s `pc`, `index`, `wert`, call count; history `highTicks`, `period` | `SIG_OVERFLOW1`, `setservo(i, v)`, `SetservoStore` |

### NetHandler

Each uIP event is one action. The action builds a frame holding uIP's flags and buffers (`Frame`) and runs it through the composition of the stage operators: `network_handle_tcp == RC4Outbound(Callback(AuthStage(RC4Inbound(f), c), reply))`. Each stage is split into operators named after its code blocks: `RC4Reset`, `RC4ConsumeIV`, `RC4RefuseRexmit`, `RC4Decipher`, `ResponseOk`, `StripResponse`.

A byte is a record `[k, v, p]` with three fields:
- `k` is the kind: IV, challenge, response, application byte, or garbage.
- `v` is the value it carries.
- `p` is the keystream position it was enciphered at.

Deciphering at the same position restores the byte. Deciphering at any other position gives garbage. The model therefore sees keystream desynchronisation without modelling RC4 itself. The constant 8 of the code is `BlockLen`; the runs use 2, which keeps every comparison and strip of the code while making segments short. The block cipher that turns a challenge into its response is a bijection, so a response is represented by the challenge it answers. A cheating peer sends a response to no challenge.

uIP is not part of `src/`, so it is represented by:
- the four events;
- `uip_abort`, which ends the connection;
- one unacknowledged segment, which the link may lose and a retransmission regenerates.

`Handle` and `Replies` are marked spec-modelled in the map.

`SecureChannel` states what the hook promises the application, without bytes or ciphers. A connection goes New → ChallengeSent → Authenticated, and may be aborted from any state. It authenticates only once the peer has answered the challenge it was sent. The application receives no more than the peer sent and nothing before authentication. The bytes that followed the response in its segment may arrive with the transition itself. Under weak fairness, a vouched peer is let in and what it sent is delivered, unless the connection is aborted. `NetHandler` instantiates it as `Channel` with the refinement mapping:
- `auth_state` ← `AuthState`: `conn` "aborted" is Aborted, "listen" is New, `auth_okay` is Authenticated, and anything else is ChallengeSent;
- `vouched` ← the peer has sent the right response;
- `sent` ← `pAppSent`;
- `delivered` ← `Len(appIn)`.

`SecureChannelRefined == Channel!Spec` is checked as a `PROPERTY`. The abstract channel counts bytes; their order and content are `InboundIntegrity`'s concern.

### OnewireList

`parse_onewire_list` is translated as it stands. Because the lock is free on the first call:
- the handler calls `ow_search_rom_first`;
- if that returns `<= 0`, the handler returns 0 without releasing the lock.

The 1-Wire search and the network front end are not in `src/`. They are modelled from spec §4.3 and §5:
- The search walks the bus in a fixed order. Past the last device it returns 0. On a bus error it returns -1.
- The front end calls a continued command again on its next turn.

The dispatcher's translation of the result is taken from `EcmdParse` through `INSTANCE`.

### RecvQueue

The handler is split at the points where the receive interrupt can interleave. Each loop test, each record written, and the final clear is its own step. `l` and `outlen` are `uint8_t`, so they are kept mod 256. The interrupt is not in `src/`: it appends the next code while the queue holds fewer than `RC5_QUEUE_LENGTH` entries. `fs20 receive` is the same loop with records of 9 characters instead of 5 (`%02x%02x%02x%02x\n` against `%02u%02u\n`). A behaviour therefore drains one of the two handlers, chosen in `Init` (`recLen` is `IrRecLen` or `Fs20RecLen`), and both runs check both handlers. The fs20 receive interrupt and the fs20 queue length are not in `src/`.

### ConfigCommands

Each command is one action: the handler runs to completion and the dispatcher's `Translate` (through `INSTANCE EcmdParse`) turns its result into the reply. Arguments are abstracted to what `sscanf` makes of them:
- an address is the number of `%u` fields matched and their values, a mac the number of `%x` fields and their values;
- a pin is two numbers or a name, for the named-pin fallback;
- a `pin set` value is a number or a word (`on`, `off`, anything else);
- an `io set` mask is a number, or -1 when only two fields were given (the code's default `0xff`).

The handlers' own arithmetic is kept: bytes are `LO8`, `reg & ~mask` of a `uint16_t` mask is `ClearBits`, bits are `_BV`. The EEPROM store, the pin table `portio_pincfg` with its lookups, `portio_input` and `XOR_LOG` are not in `src/` and are modelled from the spec: the store keeps what was saved, an output pin reads back the level it drives, and `XOR_LOG` is a logical exclusive or. The port register file has `IO_PORTS` entries; the runs use one port so that port 1 is out of range. `io get` prints `port %d: 0x%02x`, 12 characters for a one-digit port; the dispatcher passes that length through, so the reply code cannot tell it from a parse error (-1 also becomes 12), and the property reads the printed value rather than the code. The history `wrote` follows the bits of the two named pins (`Watched = {0, 1}`): an accepted `io set` sets a bit of its mask to the bit of its data, and a `pin set` or `pin toggle` that drove the pin makes the bit unknown (`Unset`).

### PwmServo

The interrupt reloads TCNT1 with `Pulslength[servoindex_half]`; the timer overflows `65536 - TCNT1` ticks later, so an entry `0 - t` lasts `t` ticks (`Ticks`). Even slots hold a servo's high time and odd slots its low time; the pin is abstracted to those durations, recorded in the history variables `highTicks` and `period`. `setservo` computes `wert` in `uint16_t` arithmetic (`Wert`, division before the product as in line 158) and writes two 16-bit entries with the interrupt enabled. On the 8-bit AVR each entry is two byte stores, so every byte store is a step (`SetservoStore`) and the interrupt may run between any two. The byte order is the compiler's, a build constant `LowByteFirst`. `MINPULS`, `MAXPULS`, `TIMER_MAXPULS` and `PWM_SERVOS` come from headers outside `src/`; `MC_PwmServo` gives them the values of an 8 MHz build with the /8 prescaler (1 tick = 1 µs, 2000 ticks per servo).

## Runs

| run | cfg | expect | what it shows |
|---|---|---|---|
| net_rc4_auth | `NetHandler_rc4_auth.cfg` | pass | RC4+AUTH build with a peer that may answer wrongly and a link that loses a segment. The application receives exactly the peer's bytes, in order (`InboundIntegrity`), and only after the peer authenticated (`AppDataOnlyFromAuthenticatedPeer`). The peer never deciphers at a wrong keystream position (`PeerNeverDesynchronised`): the rexmit abort at line 99 is what prevents it. |
| net_delivery | `NetHandler_delivery.cfg` | pass | With a peer that may answer wrongly, every byte it sends eventually reaches the application, unless the connection was aborted (`PeerDataDelivered`). The IV, the response and data may share segments, and the link may lose one. The hook also implements `SecureChannel` under the mapping above (`SecureChannelRefined`), including the abstract spec's fairness. |
| net_unauth_callback | `NetHandler_unauth_callback.cfg` | violation | `AppNotCalledBeforeAuth`: a poll on an unauthenticated connection calls the application (line 140 only withholds rexmit and newdata). |
| ecmd_dispatch | `Ecmd_dispatch.cfg` | pass | All 312,180 (table, command, result) combinations within the bounds. The dispatcher runs the first case-insensitive prefix match on exactly the remainder, checked against the reference `FirstMatch`. |
| ow_single | `OnewireList_single.cfg` | pass | A single connection that lists repeatedly gets the bus's devices once each, in order, and "OK" only after the last one (`ListIsBusPrefix`). The run has at least one device and no failing search, so both paths that keep the lock are out of its reach; `LockFreeWhenIdle` is checked only in `ow_empty_bus`, where it fails. |
| ow_shared_lock | `OnewireList_shared_lock.cfg` | violation | `ListIsBusPrefix` with two connections that may hang up (`SpecWithHangUp`): a `1w list` continues a search another connection started, or abandoned by closing mid-listing. TLC's shortest trace is the concurrent one. |
| ow_empty_bus | `OnewireList_empty_bus.cfg` | violation | `LockFreeWhenIdle`: on an empty bus, "OK" is returned with the lock held (lines 507-512). |
| ir_drain | `RecvQueue_drain.cfg` | pass | For `ir receive` and `fs20 receive`, with the interrupt firing at any step, each call writes exactly `min(queued, fit)` records, and the written bytes plus the NUL stay inside `len` (spec §8's example; `DrainsWhatFits`). |
| ir_isr_race | `RecvQueue_isr_race.cfg` | violation | `NoRecordLostWithRoom`: a code received between the final loop test and `rc5_global.len = 0` is cleared unwritten, although it would have fit. `fs20 receive` has the same race at line 456. |
| cmd_config | `ConfigCommands_config.cfg` | pass | Over every sequence of configuration and port commands (23,185 states, about 70 s): `show ip` and `show mac` report the last accepted `ip` and `mac`, whatever failed commands came between (`ShowReportsLastAccepted`, spec §8); for an output pin, `pin get` reports what the last `pin set` or `pin toggle` of it replied, through `io set` writes with other masks and commands on the other pin, for an active-low and an active-high pin (`PinReplyConsistent`); `io get ddr` and `io get port` print, bit by bit, what the last `io set` whose mask covered the bit wrote, and `io get pin` prints the port bit of an output and 0 for an input (`IoGetReportsLastWrites`). This checks the masked read-modify-write of `io set` and the three copied getters together. |
| cmd_ip_range | `ConfigCommands_ip_range.cfg` | violation | `AddressRejectsOutOfRange`: `ip 999.1.1.1 10.0.0.1 10.0.0.254` is answered "OK" and stores 231.1.1.1; spec §8 says it is a parse error that leaves the configuration unchanged. `parse_ip` copies each `%u` into a `uint8_t` without a range check (line 1096), and `parse_mac` does the same with each `%x` (line 1133), so `mac 0:1:2:3:4:1aa` is accepted and stored as `aa`. |
| pwm_period | `PwmServo_period.cfg` | violation | `EveryPeriodExact`: the interrupt runs between the two byte stores of the high entry; the servo's pin stays high 1512 ticks (old high byte, new low byte) and its period lasts 2128 ticks instead of 2000 (line 163: "sume of low and hightime for one servo is 2ms"). |

Every property of a passing run has a mutant in `PROJECT.json`. A mutant is a variant of a mapped definition, written just before it in the same module. Each variant makes a plausible error:
- keeping the IV;
- never aborting on a retransmission;
- checking only the response's length (in `net_rc4_auth` it breaks `AppDataOnlyFromAuthenticatedPeer`, in `net_delivery` the refinement `SecureChannelRefined`);
- not stripping the response;
- dropping the data after it;
- miscounting the outbound position;
- matching case-sensitively;
- ignoring the 1-Wire lock;
- an off-by-one in the drain's loop test;
- saving each address of `ip` as soon as it parses;
- a toggle that replies with the pin's old level.
- an `io get port` that prints the ddr register, as its copied neighbour `io get ddr` does.

In each case TLC finds the mutant's property violated under the run's own cfg.

The dispatcher answers an unknown command with "parse error", the same reply as a handler's -1, while spec §4.2 asks for them to differ. This divergence was seen while modelling `Ecmd` (`Translate` of the not-found result); it has no run of its own, since the project keeps one run per question and the slot went to the servo interrupt.

## Bounds and why they suffice

- **NetHandler.**
  - `BlockLen` is 2, so a segment can be shorter than, equal to, or longer than a block.
  - There are 2 challenge values (a symmetry set), so a cheating or stale response differs from the right one.
  - The peer sends 2 application bytes, which is enough for data to share a segment with the IV or the response and for a second segment to follow.
  - The device sends 1 or 2 segments, and the link loses 1. A loss followed by a retransmission covers the rexmit paths of both stages.
  - uIP may hand any prefix of the pending bytes to the hook, so every segmentation is explored.
- **Ecmd.**
  - Names of 1-2 characters over {a, b}, and tables of up to 3 names, so names can be prefixes of one another, duplicated, or longer than the command.
  - Commands of up to 4 characters over {a, A, b}, which covers upper case, the `<= 2` cut-off, and non-empty remainders.
- **OnewireList.** Buses of 1-3 devices (0-3 for the empty-bus run), 3 requests per connection, and 1-2 connections.
- **RecvQueue.**
  - Records of 5 characters (`"%02u%02u\n"`) and of 9 (`"%02x%02x%02x%02x\n"`).
  - A queue of 4 rather than the code's 10. A full queue and a backlog larger than the buffer both occur with 6 arrivals.
  - Capacities that fit 0, 1, 3, 4, 5 and 7 records of 5 characters, and 0, 1, 2 and 4 of 9.
  - A capacity of 300, past what the `uint8_t` loop test can compare, so the test is always true and only the queue's end stops the loop. The wrap of `outlen` itself would need 29 queued fs20 records, which this bound does not reach (listed as a hazard).
- **ConfigCommands.**
  - One port, so port numbers 0 and 1 cover the `IO_PORTS` check; pins 0, 1 and 8 cover the `pin < 8` check.
  - A pin table with an active-low `led` (pin 0) and an active-high `relay` (pin 1), and a name not in it.
  - Data 1 and 254 with masks 1, 0x1ff and the default: a write may touch pin 0 alone, or the whole byte, including the mask bit beyond the byte.
  - `ip` argument lists: two good ones, one with 999 in the first octet, one with a three-field address in the middle and one with only two addresses. `mac` arguments: a good one, one with 0x1aa in its last field and one with five fields.
  - The store starts at all zeros; every command can follow every other, so the depth of 11 covers each order of set, toggle, io set and get on both pins.

- **PwmServo.** Two servos, so the index wraps and one servo's period runs while the other's entries change; values 0 and 255 besides the initial 128, so old and new entries differ in both bytes; 2 `setservo` calls, enough for a call to be interrupted at each of its four byte stores. The torn period appears at depth 5.

`CHECK_DEADLOCK FALSE` appears only where the system really stops:
- NetHandler: the connection ends aborted, or everything bounded has been sent.
- Ecmd: one call per behaviour.
- ConfigCommands: every command is enabled in every state, so it never stops.
- OnewireList: a connection idles after its last command.

## Fairness

`net_delivery` assumes weak fairness of:
- the uIP events that carry pending bytes (`Connected`, `NewData`);
- `Rexmit` of a lost segment;
- `PeerReceive`.

`PwmServo`'s specification is weakly fair to `SIG_OVERFLOW1`: timer 1 runs freely once started, so its overflow interrupt keeps firing. `setservo` is not fair; callers may stop.

uIP processes every segment that arrives, and its retransmission timer fires for an unacknowledged segment. The peer's sending and the link's losses are not fair: the peer may stop, and the link may lose (within the bound). No other run checks liveness.

The fairness of `SecureChannel` (`Authenticate` and `Deliver`) is not assumed: `net_delivery` checks that the hook's own fairness implies it. The challenge values are a symmetry set in this liveness run too. That is sound here because no property and no fairness condition names a particular challenge. One consequence of the code shows up in this run: in an RC4 build, a lost challenge segment is never resent, because the RC4 stage aborts every retransmission (`handler.c` 99-104) before the auth stage could resend the stored challenge (144). An honest peer on a lossy link is therefore shut out rather than retried. Spec §4.1's two retransmit clauses together require exactly this, so it is listed as a hazard, not a finding.

## Not modelled, and why

- **uIP internals**, the RC4 and block ciphers, the hd44780 LCD driver, and the 1-Wire bus protocol. They are not in `src/`, or they are pure data transformations; the models represent them by what the hook sees. The LCD commands drive only that driver. `lcd goto` clamps a column of 20 or more to 20, which is one past the line's last column and, on a 4x20 display, addresses another line; this is listed as a hazard.
- **`eeprom_load_ip`, `network_init_apps`, `network_handle_udp`, and the send/version commands.** They are I/O with no state of their own.
- **`reset` and `bootloader`.** They set `cfg.request_reset` or `cfg.request_bootloader` and close the connection. The main loop that reads the flags is not in `src/`, so no property could observe them; as two more state variables they would multiply the `cmd_config` state space by four.
- **`1w get` and `1w convert`**, including `parse_ow_rom`, which copies an uninitialized `val` when a hex field does not parse (listed as a hazard).
- **The stella commands (`src/services/stella/stella_ecmd.c`).** The handlers call `stella_setValue`, `stella_getValue`, `stella_storeToEEPROM` and `stella_loadFromEEROMFading`, and return through `ECMD_FINAL`/`ECMD_ERR_PARSE_ERROR`; none of these is in `src/`. Their defects (the listing that writes `STELLA_PINS*4` bytes whatever `len` is; `%u` into a `uint8_t`, which truncates `channel 258` to a channel that passes the `ch < STELLA_PINS` check and writes its high byte over a neighbouring stack slot) are listed as hazards. Every property about them would be a violation run, and the project keeps at most twelve runs, all now used by questions of the modelled components.
- **`pwm_servo_init`'s ordering.** It enables the overflow interrupt before `init_servos` fills the table. Line 193 preloads TCNT1 16000 ticks before the first overflow, so the table is filled long before that, and the model starts from the filled table.

## Plan for further work

1. `StellaCommands`: `channel` get/set/list and `fadestep`, with the stack layout that `%u` into a `uint8_t` makes undefined as a nondeterministic choice, and the listing that ignores `len` (spec §4.3: writes never exceed the capacity).
