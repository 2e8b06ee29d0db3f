# TLA+ models of espp (UDP socket, NVS handle, ILI9341 driver)

This directory holds TLA+ models of the components in `src/`, the TLC
configurations that check them, and `PROJECT.json`. `PROJECT.json` lists the
components, the runs, the mutants that show each property can fail, the map
from every modelling definition to the source lines it translates, the
findings, and the hazards.

## 1. Inventory

### Components

| Component | Source | State it keeps | Operations |
|---|---|---|---|
| `UdpSocket` (the core) | `src/components/socket/include/udp_socket.hpp` | `socket_` (descriptor, valid or -1), `task_` (null / started Task), `server_receive_callback_`, `logger_`; in the OS descriptor: bound port, multicast options, group membership, `SO_RCVTIMEO` | constructor → `init()`; `send`; `receive`; `start_receiving`; `server_task_function` (one Task iteration); destructor → `cleanup()` and then member destruction |
| Task (external) | `task.hpp`, not in `src/` | a thread, a started flag, a mutex and condition variable | `make_unique`, `start`, `is_started`, destructor (stop + join) |
| `Socket::Info` / `Socket` helpers (external) | `socket_common.hpp`, not in `src/` | address, port, a cached `sockaddr_in` | `init_ipv4`, `update`, `ipv4_ptr`, `is_valid`, `make_multicast`, `add_multicast_group`, `set_receive_timeout`, `enable_reuse` |
| `NVSHandle` | second file in `src/components/display_drivers/include/ili9341.hpp` (lines 233-461) | `handle` (unique_ptr to the ESP-IDF NVS handle, null if open failed); the caller's `std::error_code` | constructor (namespace check, open); `get` (template, bool, string); `set` (template, bool, string); `commit`; `check_key_length` |
| `Ili9341` | `ili9341.hpp` lines 1-232 | static `lcd_write_`, pins, `offset_x_`, `offset_y_` | `initialize` (init command table), `flush`/`fill` (address window + pixel data), `clear` (window + chunked colour fill), `send_command`, `send_data`, `send_commands`, `set_offset`, `get_offset` |
| Logger | `logger.hpp`, not in `src/` | none that matters | leveled logging |
| Documentation workflow | `src/unnamed/part_000` | none | CI job; not modelled |

### How the parts interact

* `UdpSocket` has two threads of control. The application thread calls
  `send`, `receive` and `start_receiving` and, last, runs the destructor.
  The Task thread starts in `start_receiving` and calls
  `server_task_function` in a loop. Both threads use the one descriptor
  `socket_` without a lock.
* The two threads share state through the descriptor. Both block in
  `recvfrom` on it. `send` sets its `SO_RCVTIMEO`, and the server loop's
  receive uses that timeout. The destructor shuts down and closes the
  descriptor and sets `socket_ = -1` while the Task thread may be blocked
  on it.
* The server callback and the response callback are called synchronously:
  the server callback on the Task thread, the response callback on the
  application thread.
* The destructor body only calls `cleanup()`. After it, C++ destroys the
  members in reverse order of declaration: `logger_`, then
  `server_receive_callback_`, then `task_`. The destructor of `task_`
  stops and joins the thread.
* `NVSHandle` wraps the ESP-IDF NVS API. Each call reports through the
  caller's `std::error_code`, which is only ever *set*, never cleared.
* `Ili9341` is static and single-threaded. It turns screen areas into
  CASET/RASET/RAMWR command sequences through `lcd_write_`.

### What is hard

* **Interleaving** of the two `recvfrom` callers on one descriptor.
  Datagrams go to whichever thread is receiving.
* **Shared mutable socket options**: `send` leaves its response timeout on
  the descriptor the server loop uses.
* **Unreliable delivery**: UDP loses, duplicates and reorders datagrams, and
  replies can arrive late. A wait for a response reads "the next datagram",
  not "the answer to this request".
* **Timeouts**: a response timeout that is 0 means none.
* **Teardown**: the Task thread outlives `cleanup()` and the members it uses.
* **Partial failure**: `send` and `start_receiving` change the descriptor
  and then fail part-way.
* **NVS**: the error protocol across calls (a sticky `error_code`), the
  string size that includes the terminator, a null handle after a failed
  open, and set without commit.
* **ILI9341**: 16-bit arithmetic on window coordinates, the inclusive end
  address, the width/height mix-up in `clear`, and `memset` with a 16-bit
  colour.

### What makes each component correct

* `UdpSocket`:
  * a response callback gets the answer to its own request;
  * the server loop answers each request to the request's sender;
  * a second `start_receiving` does not disturb the running loop;
  * the loop keeps serving despite receive failures;
  * a waiting `send` returns within its timeout;
  * teardown is safe while the loop runs.
* `NVSHandle`:
  * a value set and read back is the same value (for bools via `uint8_t`,
    and for strings);
  * keys and namespaces over 15 characters never reach NVS;
  * the `error_code` after a call reflects that call;
  * no call uses a null handle.
* `Ili9341`:
  * the window sent for an area covers exactly that area, shifted by the
    offset;
  * `clear` sends exactly `width*height` pixels of the given colour;
  * the init table is sent command by command, with delays where flagged.

## 2. Plan

Modules in the order they are built. The most important behaviour comes
first.

1. **`UdpNetwork`**: the environment. A bag of datagrams in flight, with
   loss and bounded duplication.
2. **`UdpSocket`** (with `MC_UdpSocket` and its `.cfg` files): the socket,
   both threads, remote echo servers and requesting clients, the network.
   *Built in the first sitting.*
3. **`NvsHandle`**: an abstract NVS store, the caller's `error_code`, and
   every `get`/`set`/`commit` overload as an action. *Built in the first
   sitting.* Typed items; a `uint8_t` carries bools. Strings are short
   sequences over a one-letter alphabet plus the terminator. Runs:
   * round trips;
   * the key-length boundary;
   * the sticky-error protocol;
   * `commit` on a null handle.
4. **`Ili9341`** with **`Ili9341Controller`**: every driver call as an
   action that computes its bus transcript, which a model of the controller
   (from the datasheet) receives write by write. The frame memory it ends
   with is compared with what the call promises. *Built in the second
   sitting.*
5. **`UdpServer`**: the promise of the server loop. Each datagram
   addressed to the socket is served in one atomic step, and may be
   answered once, to its sender. `UdpSocket` is shown to implement it
   through `INSTANCE ... WITH` a refinement mapping (section 3, "The
   abstract server"). *Built in the third sitting.*
6. Datagram lengths in `UdpSocket` (truncation by `response_size` and
   `buffer_size`) are left out. The header documents both as maximum
   sizes. A property that a longer datagram arrives whole would only
   check the caller's choice of limit, not the code.
7. **Resets in `NvsHandle`**: power loss or reset at any point, `flash`
   apart from the handle's view, and the durability of what a commit
   reported saved. *Built in the fourth sitting.*
8. **The FLUSH signal in `Ili9341`**: the flags `send_data` passes to
   `lcd_write_`, and `flush` as its own action. *Built in the fourth
   sitting.*
9. **Teardown that completes, in `UdpSocket`**: `cleanup()`'s shutdown, and
   the stop and join of `task_`, as separate steps; `TeardownCompletes`.
   *Built in the fifth sitting.*

## 3. The UdpSocket model

`UdpSocket.tla` models one socket object and what surrounds it.

| Model | Code |
|---|---|
| `sock` | `Socket::is_valid(socket_)` |
| `bound`, `mcast`, `joined`, `rcvTimeout` | the descriptor's bound port, multicast option, group membership, `SO_RCVTIMEO` |
| `task` | `task_` (null / started / stopped) |
| `serverCb` | `server_receive_callback_` |
| `members` | whether `logger_` and `server_receive_callback_` still exist |
| `cpc`, `cto`, `pending` | the application thread: idle, waiting for a response inside `send`, in a direct `receive`, or in the destructor; the timeout its `recvfrom` blocks under |
| `wpc`, `wto`, `wdata` | the Task thread inside `server_task_function`: at the top, blocked in `recvfrom`, holding a datagram, or backing off |
| `Init` | constructor + `init()`; `socket()` may fail, and a failed `enable_reuse` leaves a usable socket |
| `Send(cfg)` | `send` up to its response wait. One disjunct per outcome: invalid socket, `make_multicast` failed, `set_receive_timeout` failed, `sendto` failed, sent (and then return or wait) |
| `Receive`, `CallerReceiveDone` | `receive` on the application thread, directly or inside `send`; the response goes to `on_response_callback` |
| `StartReceiving(cfg)` | `start_receiving`. One disjunct per outcome: already receiving / invalid, bind failed, `make_multicast` failed, `add_multicast_group` failed, started |
| `shut` | `shutdown(socket_, 0)` has shut the descriptor's read side |
| `DestroyCleanup` (`CleanupShut`), `DestroyMembers` | `~UdpSocket`: `cleanup()` (shutdown of a valid descriptor, close, `socket_ = -1`), then destruction of `logger_` and the callback |
| `DestroyTask`, `TaskExit`, `DestroyJoin` | destruction of `task_`: `Task::stop()` clears the started flag; the Task loop ends between two iterations; the join returns once the thread has ended |
| `WorkerEnter`, `WorkerReceiveDatagram`, `WorkerReceiveFailed`, `WorkerBackoff`, `WorkerDispatch` | one call of `server_task_function`, split at its blocking `recvfrom` and at the 1 ms backoff |

Data is abstracted. A datagram is `[src, dst, kind, id]`: `kind` is `"req"`,
`"rsp"` (the answer to the request with the same `id`) or `"empty"` (the
0 bytes `recvfrom` may return after `shutdown`). `response_timeout` is a
natural number, and 0 means no `SO_RCVTIMEO`. Time is not modelled: a
receive with a positive timeout may time out at any moment, even while the
datagram is still in flight. That is how a late answer arises.

Some behaviour is undefined. A `recvfrom` on a descriptor that was shut
down under it, and the data race on `socket_`, are a nondeterministic choice
between an error and a 0-byte success from an unspecified sender. Only the
shutdown wakes a `recvfrom` that is already blocked. Closing the descriptor
does not, so a blocked receive with no timeout on a descriptor that was
closed without a shutdown never returns.

### Fairness (`FairSpec`)

* The Task thread is scheduled: weak fairness of its steps.
* A datagram in flight reaches a receiving socket unless the network loses
  it. This is strong fairness of `WorkerReceiveDatagram`, which is enabled
  only on and off because receive timeouts interrupt it.
* The kernel fires a configured receive timeout: weak fairness of
  `CallerReceiveDone` and `WorkerReceiveFailed`. The latter also covers the
  error that a shutdown causes. Spec section 5 requires that error of the
  OS.
* Once the application thread is inside the destructor, it is scheduled:
  weak fairness of `DestroyMembers`, `DestroyTask` and `DestroyJoin`. The
  Task loop, once stopped, ends: weak fairness of `TaskExit`.
* Otherwise the application thread, the remote peers and the network get
  no fairness. The application may stop calling at any time.

### Runs

Model values: `Self`, `Group`, `NoEndpoint`, `NullCallback`, servers
`s1` (and `s2` in `udp_stale_response`), client `c1`, callback `cbA`.

| Run | Config | Expect | What it shows |
|---|---|---|---|
| `udp_server` | `MC_UdpSocket_server.cfg` | pass | `TypeOK`, `RequestEventuallyServed`, `ImplementsServer`, `TeardownCompletes` (below) |
| `udp_stale_response` | `..._stale_response.cfg` | violation | `ResponseMatchesRequest` fails (below) |
| `udp_teardown` | `..._teardown.cfg` | violation | `NoMemberUseAfterDestroy` fails (below) |
| `udp_zero_timeout` | `..._zero_timeout.cfg` | violation | `SendEventuallyReturns` fails with `response_timeout = 0` (below) |

**`udp_server`** runs the socket as a server and a client at once. The
application calls `start_receiving` (twice), `send` (fire-and-forget, which
leaves the send's receive timeout on the socket, or waiting for a
response), `receive` directly, and the destructor. A remote client sends
one request, and the network may lose or duplicate datagrams. The
properties:

* `RequestEventuallyServed`: a request that reaches a started server with
  a callback is served, unless the network loses it, the socket closes,
  or the application thread's own `recvfrom` (in `send` or `receive`)
  takes it. That last case is the race spec section 5 documents: both
  threads read one socket. The send's timeout makes the loop's receives
  fail and back off, and the request is served all the same.
* `ImplementsServer`: the loop implements the abstract server `UdpServer`
  (next section).
* `TeardownCompletes`: once `cleanup()` has run, the destructor returns.
  This holds even when the Task thread is blocked in a `recvfrom` with no
  receive timeout, because no `send` set one. The `shutdown(socket_, 0)` in
  `cleanup()` wakes that `recvfrom`. The Task then stops and `task_`'s join
  returns.

**The violation runs:**

* `udp_stale_response`: a reply that arrives after its send timed out, or
  the second reply of a multicast send, reaches the next send's
  `on_response_callback`.
* `udp_teardown`: the Task thread runs after `logger_` and the callback are
  destroyed, because `task_` is destroyed last.
* `udp_zero_timeout`: with `response_timeout = 0`, a send whose reply is
  lost never returns.

Every UDP run sets `CHECK_DEADLOCK FALSE`. The system really
stops there: a `recvfrom` without a timeout blocks for good when nothing
more arrives, and a destroyed object takes no steps.

### The abstract server (`UdpServer`)

`UdpServer.tla` states what the server side promises, with no threads:

* `Serve`: in one step, a datagram addressed to the socket is taken off the
  network and handed to the callback. While the socket is open, the step
  may also put one answer to its sender on the network.
* `ServeSpurious`: once the socket is closed, the callback may get an
  empty datagram from no sender.
* `Consume`: a datagram for the socket is taken without being served.
* `Close`: the socket is closed.
* `Environment` and the network faults cover everything else. The
  environment may add datagrams, and may take datagrams addressed to other
  endpoints. It never takes a datagram addressed to the socket, and never
  adds an answer from it.

`UdpSocket` defines the refinement mapping:

```
Server == INSTANCE UdpServer WITH net <- net (+) Held, open <- sock = "valid"
```

`Held` is the datagram the Task thread has taken with `recvfrom` and not
yet dispatched. To the abstract server it is still in flight. So
`WorkerReceiveDatagram` is a stutter, and `WorkerDispatch` is the abstract
`Serve` step, or `Consume` when there is no callback. The application's
`receive` inside `send` is `Consume`. `DestroyCleanup` is `Close`.

`ImplementsServer == Server!Spec` is checked as a `PROPERTY` of
`udp_server`. It shows that splitting `server_task_function` at
`recvfrom` is safe. Whatever the application thread does in between
(sends, a second `start_receiving`, destruction), the callback sees each
datagram once per copy taken. An answer goes out only while the socket
is open. A failed `recvfrom` never reaches the callback. Only a 0-byte
receive after shutdown does.

### Bounds

* `udp_server`: one send, one client request, one duplication, one
  server, one callback and a 1 s timeout. With two sends or two requests
  the run takes more than 5 minutes. One of each still reaches a request
  served twice through duplication, a request taken by the application's
  `receive`, the send's timeout reaching the loop, a repeated
  `start_receiving`, and teardown with the loop at each of its points.
* `udp_stale_response`: two waiting sends and two servers, so that a send
  can time out before the next one, and a multicast send has two
  repliers with one reply left over.
* `udp_teardown`: one request and the destructor.
* `udp_zero_timeout`: one send with `response_timeout = 0`.

### Mutants

Each property of a passing run has a faulty variant of the code that TLC
must catch (in `PROJECT.json`):

* a backoff with `cv.wait` instead of `cv.wait_for` breaks
  `RequestEventuallyServed`.
* a timeout installed in milliseconds instead of seconds breaks `TypeOK`
* `cleanup()` closing the descriptor without `shutdown` breaks
  `TeardownCompletes`: the Task thread stays blocked in `recvfrom`, and the
  destructor waits for it in join forever.
* `receive` without the `num_bytes_received < 0` check, so that a timed-out
  `recvfrom` is dispatched as an empty datagram, breaks `ImplementsServer`

## 4. The NvsHandle model

`NvsHandle.tla` models one `NVSHandle` object and the application that
calls it. `MC_NvsHandle.tla` gives keys of 15 characters (`k15`,
`k15b`; 15 is the longest NVS accepts) and one of 16 (`k16`).

| Code | Model |
|---|---|
| constructor: namespace longer than 15, open fails, open succeeds | the three disjuncts of `Opened` (`handle`, `ec`), used by `Init` and `Reboot` |
| the NVS namespace: what the handle reads, what survives a reset | `items`, `flash` (erased at first; contents left by earlier boots arise through `Reboot`) |
| the application's output variables | `outU8`, `outBool`, `outStr`, value-initialised |
| `check_key_length`, then `if (ec) return;` | `KeyTooLong`; the first two disjuncts of `Keyed`. A long key sets `Key_Length_Too_Long` over whatever `ec` held; a short key with an `ec` already set returns at once |
| `handle->...` on a null `unique_ptr` | `crashed` becomes TRUE; only `Reboot` follows |
| `get<T>` and its `switch` | `GetItem`, `GetU8` (`ESP_ERR_NVS_NOT_FOUND` when no `uint8_t` is under the key, `OtherReadError` for any other error) |
| `get(bool&)`: through a `uint8_t`, assigned only if `!ec` | `GetBool`, `U8ToBool` |
| `get(std::string&)`: `get_item_size`, `resize`, `get_string` | `GetStr`, `ItemSize`, `Resize`, `GetString` |
| `set<T>`, `set(bool)`, `set(std::string)` | `SetItem`, `SetU8`, `SetBool` (`BoolToU8`), `SetStr` (`CStr`: `value.data()` is read up to its first NUL) |
| `set_item`/`set_string` reaching flash | either at once or at the next `commit` (the `nvs_commit` contract) |
| `commit` | `Commit`: no check of `handle` or `ec`; on success `flash` = `items`; `CommitError` on failure |
| the application keeps one `error_code` and clears it | `ReuseErrorCode`, `ClearEc` |
| power loss or reset, including the panic after a null dereference | `Reboot` (at most `MaxReboots`): the application restarts and constructs a new handle on `flash` |

`promised` and `durable` are history variables. They are built only from
what the application sees: the sets and commits that left `ec` clear.
`promised[k]` is the set of items a read of `k` may return now. A
successful set makes it that one item, and a reset makes it
`durable[k]`. `durable[k]` is the set of items a reset may leave under
`k`: the items in `promised[k]` at the last commit the application saw
succeed, plus every item set with success since.

Each `string_view` overload only forwards to the `const char *` one, so it
is the same action. Flash errors are nondeterministic disjuncts.

### Runs

| Run | Expect | What it shows |
|---|---|---|
| `nvs_kept_ec` | pass | The application keeps one `error_code` and clears it when it likes, so calls begin with a clear or a stale code. `ReadsReturnWritten`: a `get` of a `uint8_t` or `bool` that the application sees succeed returns an item of `promised` (through `static_cast<bool>` for a bool). A `get` that began with a clear `ec` and reports `Key_Not_Found` has no `uint8_t` in `promised`. This holds across failed sets and commits, sets that reach flash early, and one reset. To break it takes a set, a commit, a reset and a get. |
| `nvs_sticky_ec` | violation | `ErrorCodeReportsCall`, the same claim without the clear start, fails. An earlier `Key_Not_Found` on `k15b` stays set, and every later call returns at once, so a `get` of the stored `k15` reports `Key_Not_Found`. This run uses the extra key and no reset. |
| `nvs_string` | violation | A string read back has a trailing NUL. `get_item_size` counts the terminator and `value.resize(len)` keeps it (line 355). |
| `nvs_null_handle` | violation | After a failed open, the next `get`, `set` or `commit` with a clear `ec` dereferences the null handle. |

All NVS runs set `CHECK_DEADLOCK FALSE`: once the resets are used up, a
crash ends the program.

### Bounds

* Stored strings: at most 1 character over a one-letter alphabet. The read
  adds a NUL, so reads are up to 2 characters long.
* `uint8_t` values: 0, 1 and 2. The 2 separates "non-zero" from "equal to 1"
  in the `bool` conversion.
* Namespace lengths: 15 and 16, so both constructor branches are reached.
* Resets: 1 (0 in `nvs_sticky_ec`). One reset lets the model reach a set
  that reached flash early, a commit that failed, and a commit that never
  happened before power loss.

### Mutants

* `true` stored as `0xFF` breaks `TypeOK`.
* a `commit` that does not report its failure in `ec` breaks
  `ReadsReturnWritten`. The application believes the set is saved, a reset
  brings back the older item from flash, and the next `get` returns it.

## 5. The Ili9341 model

`Ili9341.tla` models the static driver. `Ili9341Controller.tla` models the
controller on the SPI bus. The controller is the environment, written from
the ILI9341 datasheet, not from this repository:

* CASET/RASET set an inclusive window.
* RAMWR puts the write pointer at the window's start. The following data
  bytes are grouped into pixels and written along the row, then down the
  window. A pixel is two bytes in the 16-bit format (COLMOD 0x55) and
  three bytes in the 18-bit format the controller has after reset. A
  lost COLMOD therefore garbles every later fill.
* SLPOUT makes the controller lose any command sent before the host's
  delay.
* DISPON/DISPOFF, INVON/INVOFF and COLMOD set their flags. Other
  commands, such as MADCTL, do not change what the properties observe.

Frame memory is modelled for a `PanelW` x `PanelH` corner of the panel. A
pixel is the sequence of bytes received for it.

| Code | Model |
|---|---|
| static `offset_x_`, `offset_y_` (zero-initialised) | `offsetX`, `offsetY`, `Init` |
| `initialize`: offsets, `ili_init_cmds`, `send_commands`, INVON/INVOFF | `Initialize`, `IliInitCmds`, `SendCommands` (`IsEnd`: `length != 0xff`; `length & 0x1F` data bytes; `HasDelay`: `length & 0x80`) |
| `fill`/`flush`: `uint16_t` coordinates plus offsets, CASET/RASET bytes, RAMWR, `size * 2` bytes of the colour map with the call's flags (`flush` passes `Signal::FLUSH`) | `Fill`, `Flush`, `FillTx`, `U16`, `Be16`, `Window`, `PixelCount`, `MemBytes` |
| `clear`: window from `x+width` and `y+width`, `memset`, the chunk loop | `Clear`, `ClearTx`, `MemsetByte`, `ChunkLen`, `ClearChunks` |
| `set_offset` | `SetOffset` |
| `enum class Command` | `Command`: the codes that `fill` and `clear` send (`caset`, `raset`, `ramwr`) |
| `send_command` / `send_data`: set D/C, then `lcd_write_(data, length, flags)` | `SendData` (a write carries its `flags`); `BusWrite`, which delivers the next write of `bus` |

A call computes its transcript into `bus`. `BusWrite` then hands the
controller one write at a time, and the next call waits until the last
write is out: `lcd_write_` is synchronous. `fbBefore` and `lastCall` are
history variables for the properties. `get_offset` only reads.

### Runs

| Run | Expect | What it shows |
|---|---|---|
| `ili_driver` | pass | `PanelStaysConfigured`: once `initialize`'s writes are out, the panel is awake and on. It takes 16-bit pixels (COLMOD 0x55), and its inversion is the one the last `initialize` asked for. This holds whatever calls follow. `FillPaintsArea`: `fill` puts its colour map, row by row, in exactly its offset area and leaves every other pixel alone. `ClearSendsArea`: `clear`'s loop sends exactly `width*height` pixels, in non-empty chunks no larger than `color_data`. |
| `ili_clear` | violation | `ClearPaintsArea`: `clear(0, 0, 2, 2, 0xF800)` opens a 3x3 window (end address `x+width`, and the end row from `width`). It leaves (1,1) unpainted, paints (2,0) outside the area, and paints black, because `memset` keeps only the low byte. |

### Bounds

* Panel: a 2x2 corner.
* Offsets: 0 and 1, so an area can be partly off the panel.
* `clear` sizes: 0, 1 and 2. The 0 is an empty clear.
* Colours: `0x0000` and `0xF800`. In `0xF800` the two bytes differ.
* `MaxBytesToSend`: 2 pixels instead of 2048. A 2x2 clear then takes two
  chunks and a 1x1 clear a short one.
* Calls per behaviour: at most 3 (the `WithinCalls` state constraint of
  `MC_Ili9341`). That covers `initialize` followed by any two calls,
  including a second `initialize`.

### Mutants

* a `memset` value not truncated to a byte breaks `TypeOK`.
* `send_commands` stopping at the first zero-length entry breaks
  `PanelStaysConfigured`: SLPOUT and DISPON are never sent.
* CASET/RASET bytes sent low byte first break `FillPaintsArea`.
* every chunk sent as a full buffer breaks `ClearSendsArea`.

## 6. Not modelled

* Logging output and wording.
* Byte contents of payloads (beyond request/response identity).
* IPv4 address formatting in `Socket::Info`.
* The Task's own scheduling parameters.
* The CI workflow.
* Multicast loopback of the socket's own group datagrams.
* The ESP-IDF NVS flash layout: it is vendor code, abstracted to one typed
  item per key, plus what of it survives a reset (`flash`). A write torn by
  a power loss in the middle of `set_item` is not modelled. The model
  takes a set as either reaching flash whole or not at all.
* ILI9341 GPIO set-up, reset and backlight (`display_drivers::init_pins`,
  not in the sources). What the application's `lcd_write_` does with the
  `FLUSH` flag is outside the sources too. The model keeps the flag on
  the transfers `flush` sends, but no property is about it.
* Negative display offsets. The datasheet gives no behaviour for a window
  whose start is past its end, which a wrapped `uint16_t` address
  produces.
* An asynchronous `lcd_write_`. The application supplies it, and the D/C
  handling of `send_command`/`send_data` is only correct if it is
  synchronous.
* Calls to the driver from more than one thread. Every member is static
  and nothing is locked, so two calls that interleave would mix their D/C
  levels and windows. The callers are not in the sources, so each call is
  taken to run to completion.
