# TLA+ models of the cFS ground tools

This directory holds TLA+ models of the Python ground tools under `src/`:
- the telemetry routing service and the windows that subscribe to it (`src/tools/cFS-GroundSystem`);
- the command GUI;
- the scheduler-table generator;
- the CTF plugins.

Each model is checked with TLC. `PROJECT.json` lists the components, the runs, the mutants, the mapping from each definition to source lines, the findings, and the hazards.

## The system and how its parts interact

The ground system is made of the following parts:

- **Routing service** (`RoutingService.py`). A `QThread` of the main window. It reads UDP datagrams from the flight software's telemetry output and drops any datagram shorter than 6 bytes. The first time it sees an address, it names the source `Spacecraft<n>` and emits a `changeIpList` signal. It then publishes the datagram on a ZeroMQ PUB socket (`ipc:///tmp/GroundSystem`) under the topic `GroundSystem.<name>.TelemetryPackets.<hex(first header word)>`.
- **Main window** (`GroundSystem.py`). Its GUI thread handles `changeIpList` as a queued signal and keeps its own copy of the address and name lists. When the operator starts the telemetry system, it launches `TelemetrySystem.py --sub=...` with a subscription for the selected spacecraft: `GroundSystem` for "All", otherwise `GroundSystem.<name>.TelemetryPackets`. Closing the window stops the routing service.
- **Telemetry system** (`TelemetrySystem.py`). Its `TlmReceiver` thread SUBscribes with that prefix and counts packets per page. Each page button launches a page with the subscription `<own subscription>.<hex(appid)>`.
- **Pages** (`GenericTelemetry.py`, `EventMessage.py`). Each page subscribes with the prefix it was given and decodes fields. `EventMessage` also does two things of its own:
  - it replaces a subscription with fewer than three dot-separated parts by `GroundSystem`;
  - it skips topics that do not contain its appid string.
- **Command side** (`cmdGui/*`). Four kinds of process, each started by the one before it with a command line:
  - The command system window (`CommandSystem.py`) loads `command-pages.txt` into parallel lists and `quick-buttons.txt`. Its Display Page buttons start a command page for a row; its quick buttons send the quick command named after a page.
  - A command page (`UdpCommands.py`) reads its arguments with `getopt` and its commands from a pickle. A send button starts `cmdUtil` directly for a command without parameters, or a parameter dialog for one with parameters (`checkParams`).
  - The parameter dialog (`Parameter.py`) reads up to ten input fields, encodes them as `--type=value` options, and starts `cmdUtil` with the header arguments it was given.
  - `cmdUtil` (C, outside the scope) sends the command.
  - The pickles the pages read are written beforehand by `CHeaderParser.py`, an interactive script. It takes every three-part `#define` of the cFS headers as a command, and for each command the user picks it scans the headers for brace blocks, lets the user pick a structure and its parameter lines, and writes `ParameterFiles/<command>`.
  - `HTMLDocsParser.py` writes the same kind of parameter file from the Doxygen pages of the cFE command structures: it walks each page's text from "Data Fields" to "Detailed Description" one field at a time, skips the command header, and resolves each string field's size through the `#define`s of the cFE headers, asking the user when it resolves to 0.
- **Scheduler-table generator** (`gen_sch_tbl.py`). A script that reads `sch.in` (frame counts, then one row per application with its rate and first minor frame) and writes a scheduler table, one slot per message.
- **CTF cFS plugin** (`ctf/plugins/cfs/cfs_plugin.py`). The test framework calls it from test scripts. It keeps a dictionary of named cFS targets, registered explicitly or lazily from the configuration file, and forwards start, command, check and shutdown calls to one target or to all of them.
- **Application code generator** (`gen_app_code/*`). A script that reads its options (or an input file of `APPS` and `TBLS` lines) and, for each application, creates `OUTDIR/<app>/fsw` and its sub-directories and writes or removes about twenty files: makefiles, headers, the application source and the table sources. The `TBLS` keys (`iload`, `cds`, `none`) decide which table files are written, which are removed and which includes and calls the other files carry. Each run works on what earlier runs left on disk.
- **CTF requirement validation plugin** (`ctf/plugins/ReqValidation/ReqValidation_Plugin.py`). Test scripts call its commands. `ParseTxtFile` searches a text file for a string, with a flag that inverts the verdict. `InterpretEventLog` turns a binary cFE event log into a text file. `TO_DO` and `InsertComment` only log.
- **Plugin installer** (`installPlugins.py`), which only copies files.

## Modules

### Topic

`Topic.tla` holds pure operators for the strings of the bus. A string is a sequence of tokens: each fixed word is one token and each digit of a rendered number is one token. Every subscription the code builds ends on a token boundary, so a ZeroMQ byte-prefix filter is `IsPrefix`, and a Python `x in s` test is membership in `SubSeqs`.

| Operator | What it models |
|---|---|
| `DigitValues`, `Render` | The digit loop behind `hex()` and `str()`. `DigitValues` is `RECURSIVE`. |
| `Hex`, `PktId` | `getPktId`: the stream id rendered with `hex()`. |
| `SpacecraftName` | The name given to a new source. |
| `TopicOf` | The topic `forwardMessage` builds. |
| `Matches` | The SUB socket's prefix filter. |
| `TlmSystemSubscription` | The subscription `startTlmSystem` builds. |
| `PageSubscription` | The subscription `ProcessButtonGeneric` builds. |
| `EventSubscription` | `EventMessage`'s normalisation of its subscription. |
| `EventFilterPasses` | `EventMessage`'s appid filter. |

### MCTopic

`MCTopic.tla` checks these operators for every combination of:
- a selected spacecraft (0 means "All");
- a publishing spacecraft;
- a page's appid;
- a packet's stream id.

Each step changes one coordinate, so an invariant is checked on every combination. Two operators are checked against reference definitions: a FoldLeft that reads a rendered number back to its value, and the required shape of a topic.

### RoutingService

`RoutingService.tla` models the router thread and the main window. Its variables correspond to the code as follows:

| Variable | In the code |
|---|---|
| `udp` | The datagrams waiting at the socket. It is a set, so the network may reorder them. |
| `ipAddressesList`, `spacecraftNames` | The router's lists of the same names. |
| `published` | The sequence of `send_multipart` calls. |
| `thread` | Whether the router thread is running or dead. |
| `sockOpen` | Whether the socket is open; `stop` has not run yet. |
| `signals` | The queue of pending `changeIpList` signals. |
| `mainIps`, `mainNames` | The main window's copies of the lists. |
| `launched` | The systems the main window started with `os.system`: a telemetry system with its `--sub`, or the command system. |

Its actions are:

| Action | What it models |
|---|---|
| `SourceSend` | The flight software sends a datagram. This is the environment, modelled from spec §4.1. |
| `UdpLose` | The best-effort transport loses a datagram. |
| `RouterReceive(d)` | One whole iteration of `RoutingService.run`, including `forwardMessage` and `getPktId`. It covers all of the following: the short-datagram `continue`; the substring discovery test; registration with the signal; the `list.index` lookup; the publish. When `index` raises `ValueError`, the thread ends. |
| `UpdateIpList` | The GUI slot. |
| `Stop` | `closeEvent` followed by `stop`. |
| `StartTlmSystem(ip)` | `startTlmSystem` for an address selected in the combo box: `getSelectedSpacecraftName` (`SelectedName`, a `list.index` into the main window's lists), then the subscription of that name. |
| `StartCmdSystem` | `startCmdSystem`: `CommandSystem.py` started with no argument. |

The loop's `except socket.error: sleep(1)` retry changes no state, so it is a stuttering step.

### TelemetryPipeline

`TelemetryPipeline.tla` extends `RoutingService` with consumer processes:
- `connected` and `joinedAt` model a ZeroMQ slow joiner: PUB sends only to a SUB whose connection has completed.
- `zq` is the SUB queue. `FanOut` drops a message for a subscriber whose queue holds `Hwm` messages, and records it in `lost`.
- `qt` is the queued Qt signal from `TlmReceiver` to the GUI thread. `shown` is what `processPendingDatagrams` has handled.
- `Route(d)` is `RouterReceive(d)` and the fan-out of what it publishes, in one step, because `send_multipart` queues before it returns.
- `EventRecv` is `EventMessage`'s receiver, including its appid substring filter.
- `ConsumerProcess` is the GUI slot of a generic page. `EventProcess` is `EventMessage.processPendingDatagrams`: it counts the packet first, then unpacks it. The unpacks raise unless the datagram is exactly 168 bytes (`EventUnpacks`), so only such a packet reaches `eventOutput`. Datagrams carry their length through the router for this (`len` of a published message).

`DeliveryOrder.tla` is the abstract specification of what this path promises a window. The bus is a log that only grows (`Publish`). A window shows messages of the log one at a time, only ones it is for, each later in the log than the one before (`Show(c)`). It may miss messages. `TelemetryPipeline` instantiates it with its own `published` and `shown` as the refinement mapping: the router's list is the bus, and the GUI slots' lists are the windows. The `pipeline` run checks `Delivery!Spec` as the property `ImplementsDeliveryOrder`. Every step of the detailed spec (UDP, sockets, both queues, both threads) must then be a `Publish`, a `Show` or a stutter of the abstract one.

### TelemetryDecode

`TelemetryDecode.tla` models one generic telemetry page (`GenericTelemetry.py`): the field-definition table, `processPendingDatagrams` and `displayTelemetryItem`.
- A packet is a sequence of byte values. `Slice` is Python's clamping slice. `UnpackFails` is `struct.error` for a slice whose length is not `calcsize`. `FieldValue` reads the bytes in the page's byte order.
- `ProcessPendingDatagrams(pk)` is the whole slot: `pktCount += 1`, then the 40 calls in order. The first call that raises ends the slot, so later slots keep their old text. `Reached(p, i)` is the test for whether call `i` runs, and `FirstRaise(p)` is the slot that raises first. The history variable `shownAt[i]` records the packet count at which slot `i` was last displayed.
- `MCTelemetryDecode.tla` encodes packets from values with the flight software's byte order (`FlightEndian`), so `DisplayedValueIsSentValue` compares the display with what was sent. Beside the 24 whole packets it sends two faulty ones: a mode of 4 against four enum labels (`IndexError` at line 37, in slot 2) and a packet one byte short (`struct.error` at line 31, in slot 4).

### ParameterDialog

`ParameterDialog.tla` models `Parameter.ProcessSendButton`.
- `TypeInput(k, v)` is the operator editing field `k`.
- `ProcessSendButton` does everything the handler does: strip, scan to the first empty field, encode, join, `shlex.split`, start `cmdUtil`, and set the status. An `IndexError` in the scan or a `ValueError` from `shlex.split` leaves the dialog unchanged.
- `ShlexSplit` is a fold over characters implementing POSIX `shlex` for blanks and double quotes. The fixed prefix of the launch string (`cmdUtil --host=... --cmdcode=...`) has no quotes, so only the parameter part is split.
- It is checked inside `MCCommandPages`, which gives each field a few values, with and without surrounding blanks, and a string value with a blank inside.

### CommandPages

`CommandPages.tla` models the command chain above the dialog. The loaded configuration is a set of definitions computed from the rows, the way the main block computes it before `show()`:
- `LoadRow` is one iteration of the `command-pages.txt` loop. It appends `True` and then each field in turn, stopping at the first missing field (the caught `IndexError`); `i` counts only complete rows. `Pad` is `range(i, 22)`.
- `QuickIndices` is the list the 22 per-page blocks append to, one entry per valid page, with `QuickIndexOf` as `subsys.index` (-1 on `ValueError`).
- `StartupCompletes` is assumed: rows for which the per-page blocks raise leave no window.

The variables are the processes started: `pages` (each `UdpCommands.py`, as its `getopt` loop stores the arguments), `dialogs` (each open `Parameter.py`), and `sent` (each `cmdUtil` run, with the page and command it came from as history). The actions are:

| Action | What it models |
|---|---|
| `ProcessButtonGeneric(idx)` | A Display Page button, 0..20: the launch string (an `IndexError` starts nothing), and `UdpCommands.py` starting, or ending at once when its command file is missing. |
| `ProcessQuickButton(idx)` | A quick button, 0..21: the page's pktid and address with the quick row's port, byte order, code and parameter file. |
| `ProcessSendButtonGeneric(p, idx)` | One of the 25 send buttons of command page `p`, for a command of the page's file (`CmdItemIsValid`). The command records the label beside the button, `PageLabels(f)[idx]`, the text the startup block of `UdpCommands.py` set. |
| `DialogSend(d, args)` | A dialog's Send: `cmdUtil` with the dialog's header arguments and `args`. |
| `CloseDialog(d)` | The operator closes a dialog. |

The quick and send buttons share `SendOrAsk`: `checkParams`, then `OpenDialog` or `SendDirect`.

`MCCommandPages.tla` composes it with an instance of `ParameterDialog`. Opening a dialog starts a fresh instance (`DlgFresh`), typing is a step of the instance, and a press that sends becomes `DialogSend` with the instance's argument vector. At most one dialog is open at a time. Dialogs share no state, so this loses no behaviour of any one dialog. The rows are a comment, a blank line and the pages ES, EVS and TBL; TBL's command file is missing. Only EVS has a quick row. The commands are one with a 16-bit and a string parameter, one whose parameter file lists none, and one whose parameter file is missing.

### CHeaderParser

`CHeaderParser.tla` models `CHeaderParser.py` from the start of `__main__` to its last prompt. A header line is its list of tokens. A token records its text up to any `[`, whether it has a `[`, and the dimension between the brackets. The user's answers are free choices. A rejected answer that is asked again changes nothing, so it is not a step. An exception ends the script (`pc = "raised"`).

| Action | What it models |
|---|---|
| `ParseHeaders` | `getFileList` (no file exits), the concatenation into `master_hdr`, the `#define` loop (`StripComment` cuts at `/*`, else at `//`; `Definitions` keeps three-part lines), and the command pickle. |
| `AnswerParams` | The yes/no question. |
| `ChooseCommand` | The command prompt: `-1` ends the loop; a rejected answer followed by `-1` exits; a listed command starts a scan. |
| `ScanStep` | One pass of the structure scan: a line without `{` is passed (`PassLine`); a `{` line collects the lines up to the next `}` (`StructOf`) and leaves `line_num` on the `}` line; no `}` raises `IndexError`. |
| `ChooseStruct` | The structure prompt: `-1` exits. |
| `ChooseParam` | One pass of the parameter loop. `-1` ends it. An index Python cannot take raises. A line of fewer than two words raises. A type `findDataTypeNew` does not know raises, because `findKeyword` does not exist (`Typed`). Otherwise the parameter is added (`Param`, `StringLens`) and its line deleted (`Remaining`). An emptied list ends the loop. The loop's end (`FinishCommand`) moves the command to the used list and writes its parameter file. |

`MCCHeaderFiles.tla` holds the sample headers:
- `sample_app_msg.h` has an include guard and three command codes, one with a `/* */` comment and one whose `//` comment holds a `/*`. It has two structures, one with its `{` on a line of its own and one after `typedef struct`. The second structure has a `uint16`, a string of numeric size 20, a string of size 200 (above the 128 limit, so the user is asked) and an `int16`.
- `sample_app_msgids.h` holds a message id.
- A header whose structure is written on one line.

`MCCHeaderParser.tla` runs the parser alone on them. The `commands` run composes it into `MCCommandPages`.

### HTMLDocsParser

`HTMLDocsParser.tla` models `HTMLDocsParser.py`'s `__main__` and the two methods it calls. A page (constant `Pages`) is its name and `parser.allData`, the stripped non-blank text nodes `handle_data` collects; the header files (constant `Headers`) are their lines in glob order. Texts are TLA+ strings and Python's `x in s` is `StrIn`, so the code's substring tests keep their meaning. The state is the loop position (`pc`, page `f`, the code's `i` and `j`), the six lists of the page, the search `keyword` and the pickles written so far. An entry of `stringLen` records its Python type, because the answer to Python 2's `input()` is an int.

| Action | Code |
|---|---|
| `StartFile` | One page of the `for` loop up to the `try`: `data.index` of the two sections, or the caught `ValueError`. |
| `FieldStep` | One turn of `while i < j`: the header skip (`SkipText`), or a field's type, name, optional `[size]`, description (`Joined`) and `findDataTypeNew`; a string field goes on to the size search. Reading past the texts raises `IndexError`, which is not caught. |
| `StrLenStep` | One turn of `while keyword.isdigit() == False` (`FindStringLen`, `StripBrackets`), or its end. |
| `Ask` | `input()` for a size `'0'`. |
| `WriteFile` | The pickle of the six lists under the page's name. |

`MCHTMLDocs.tla` renders four structure pages as Doxygen does: `START_APP` (a string sized by a macro that names another macro, a `uint16`, a string with a two-text description), `NOOP` (only its header), `RESTART` (no "Data Fields" section) and `WRITE_CDS` (a size macro defined as 0). Its three header files hold an include guard, the macro chain and a `sizeof` define. The `commands` run composes the parser into `MCCommandPages`; the user may answer 16 or 32.

### TelemetryCounters

`TelemetryCounters.tla` models the telemetry system window's own state (`TelemetrySystem.py`):
- `Init` is the main block. It reads the page table, pads `tlmPageAppid` with 0 up to 21 slots (but not `tlmPageCount`), and sets the count widget of every page to 0.
- `ProcessPendingDatagrams(s)` is the GUI slot for a packet of stream id `s`. It increments `pktCount`, then visits all 21 slots. For each slot whose appid is `s`, it increments the counter and writes it through the `if i == 0 ... elif i == 20` chain (`CountWidget`).
  - A padding slot raises `IndexError`.
  - A widget the dialog lacks raises `AttributeError`.
  - Either ends the slot.
- The dialog class is generated code outside the repository. `Widgets` is the set of count widgets the main block uses, `countBrowser_0` to `countBrowser_20`.

`MCTelemetryWindows.tla` checks this window beside the generic page of `MCTelemetryDecode`. The two GUI slots run in different processes and share no state, so each step is a step of one of them. The window's table has sixteen pages:
- two of them on one stream id;
- packets of that id, another page's id, and stream id 0.

### SchTable

`SchTable.tla` models `gen_sch_tbl.py`. The variables are:
- the rows read (`apps`);
- the table (`tbl`);
- the loop indices (`appIdx`, `mfIdx`, `mfIncr`);
- a program counter `pc`;
- the frames as written (`out`).

The actions follow the script in order:
- `LoadSchConfigFile` reads the rows.
- `GenerateStart` clears the table.
- `NextApp` is the head of the per-application loop. A rate of 0 raises `ZeroDivisionError` here.
- `FrameStep` is one iteration of `while mfIdx < numMinorFrames`, with `Fill` taking the first unused slot of the frame.
- `SaveSchTbl` writes the file.

Each loop iteration is its own step, so a loop that never ends is a behaviour that never reaches `done`. `MCSchTable.tla` gives rows of every kind:
- regular rates;
- two rows that share a frame;
- a message type the script does not know;
- a rate of 0;
- in the `fast` cfg, a rate of 5 with four minor frames.

### GenAppCode

`GenAppCode.tla` models `gen_app_code.py` and the modules it calls. The variables are:
- `tree`: for each application, the directories under `fsw` and, for each file, whether it exists and the `TBLS` keys of the run that wrote it;
- `status`: how the last run ended (`ok`, `exit` for `sys.exit`, `ioerror`);
- `runs`: the number of runs so far.

One run of the script is one action, `RunGenAppCode(argv)`, because the script is sequential and nothing else touches the tree while it runs. Inside it:
- `ParseConfigs` and `ParseInputFile` follow `parse_configs` and `parse_input_file`: options, an input file, comment lines, and `sys.exit` for no arguments or a missing file.
- `GenerateApp` takes the steps of the loop of `gen_app_code.py` in its order. It starts with `CreateCfsDirs`, then calls each `Generate*` in turn. Each one writes or removes its file under the same conditions as the code. A write into a directory that does not exist is an `IOError` that ends the run.

A file's contents are abstracted to what the properties need from `Content(f, T)`:
- the headers it includes;
- the sources a makefile builds;
- the functions a source defines and calls;
- the types and macros it defines and uses: the table types, `<APP>_HkTlm_t` of `msg.h`, the private types of `private_types.h` and `<APP>_EVT_CNT` of `private_ids.h` (`PrivateIdsContent`, `PrivateTypesContent`), which `<APP>_AppData_t` in `app.h` and the event registration in `app.c` use.

Each template constructor (`construct_*_content`) is one operator that records those for its template.

### MCGenerators

`MCGenerators.tla` puts `SchTable`, with `MCSchTable`'s files, and `GenAppCode` in one specification. The two scripts share no state, and every invariant reads only one of them, so `gen_app_code.py` is run only after `gen_sch_tbl.py` has ended. This reaches the same states of each as an interleaving, with far fewer pairs. The runs of `gen_app_code.py` use one application `sc` and up to three command lines from a set that covers:
- `TBLS iload`, `cds` and `none`;
- `none iload`;
- the undocumented key `iload-table`;
- no `TBLS` at all;
- an input file with a comment line and both keys;
- a missing file;
- no arguments.

### CfsPlugin

`CfsPlugin.tla` models the plugin's own state:
- `targets`: the keys of `self.targets`, in insertion order;
- `initialized`;
- `deleted`: `del self.targets` has run;
- `sent`: the commands each controller was asked to send;
- `ret`: the last return value.

The controllers and the argument validation come from modules that are not in this repository. Their results are free choices.

Each plugin method is one action:
- `RegisterCfsLocal`, `RegisterCfsSp0` and `RegisterCfsRemote`;
- `StartCfs`, which includes the lazy `get_configuration` while no target was registered;
- `BuildCfs`, `EnableCfsOutput`, `CheckTlmValue`, `CheckEvent` and `ShutdownCfs`;
- `SendCfsCommand` and `SendMultCfsCommands`;
- `Shutdown`.

After `Shutdown`, every call raises (`Raises`). `MCCfsPlugin.tla` gives the configuration file four sections:
- `cfs_a` (local);
- `cfs_b` (ssh);
- `cfs_c` (no protocol);
- `gui` (another plugin's).

Test scripts call with the names `""`, `cfs_a` and `cfs_b`. The `commands` run checks the plugin inside `MCCommandPages`, with the same configuration (`CfsSections`).

### ReqValidation

`ReqValidation.tla` models the requirement validation plugin. Its state is:
- `ret`: the last return value;
- `fs`: the files of the build directory, by path: a text file, a cFE log, or the output `InterpretEventLog` wrote;
- `call`: the last command, kept as history for the properties.

Each command of `command_map`, with `initialize` and `shutdown`, is one action. Both file commands open `".../lx2" + name` (`Path`). A name without its leading `/` names a file that is not there, and `open` raises. `ParseTxtFile` reads whatever the path holds then (`TextView`); on a binary log, `readlines` may raise `UnicodeDecodeError`. A line is the set of strings a search can find in it (`Found`), and `ParseResult` is the search loop with the two flag tests after it. `InterpretEventLog` follows the code's order: the input is opened (missing: `IOError`, nothing written), the output is opened `'w'` and so truncated, and only then is the input read (`Bytes`). With the same file as input and output the code reads empty bytes. A log an earlier call overwrote is read as the text that replaced it; a non-empty text file read as a log is `Garbled` wherever the loop reads. The loop decodes 20 entries at the code's own offsets (`EventLine`, `ReadField`), whatever the input holds.

The log file is the environment. `LogFile` builds what cFE writes for a list of entries: a 64-byte file header, then per entry a 16-byte header (time at byte 10) and the payload fields, 172 bytes in all. A byte range the code reads that is no field reads as `Garbled`, and one past the end reads as empty bytes (zero, or the empty string). `MCReqValidation.tla` gives a log of two entries, one a day and an hour in and one a year later with an undefined event type, a text file, and names with and without the `/`, so an output can replace the log or the text file and be read again. `ParseTxtFile` searches for one event text with the flags 0 and 1; no property reads its verdict.

`test_verify_command` is not modelled. `verify_required_commands` names `TestVerifyCommand`, which `command_map` does not define, and the plugin manager that would call it is not in the repository.

### MCTelemetryWindows

`MCTelemetryWindows.tla` runs the generic page of `MCTelemetryDecode` and the telemetry system window of `TelemetryCounters`. Beside them, the combinations of `MCTopic` (a selected spacecraft, a publisher, a page's stream id and a packet's stream id) are stepped through while neither window has processed a packet. The three share no state.

### MCRoutingService

`MCRoutingService.tla` provides two sets of addresses:
- addresses that do not nest: `1`, `2`;
- addresses that nest: `12`, `1`, standing for `10.0.0.12` and `10.0.0.1`.

## Runs

| Run | Cfg | Expect | What it shows |
|---|---|---|---|
| page_sub_all | MCTopic_reach.cfg | violation | A page launched from a telemetry system opened on "All" subscribes to `GroundSystem.0x800`. No topic starts with that, so the page stays empty. |
| routing | MCRoutingService.cfg | pass | The run uses lossy, reordering UDP and allows a stop at any time. Every accepted datagram is published. A name in a topic identifies one source. Every discovered source eventually appears in the main window's list with the router's name, or the application was closed. A telemetry system started for a selected address subscribes to exactly that source's messages, or to all of them for "All" (`SelectedSystemSeesItsSource`, one launch at any point of the behaviour). |
| routing_nested_addr | MCRoutingService_nested.cfg | violation | An address contained in an earlier one is never registered. `index` then raises `ValueError` and the routing thread dies. |
| pipeline | MCTelemetryPipeline.cfg | pass | A generic page and an event page receive from two sources. The pipeline implements the abstract `DeliveryOrder`: each window shows only packets it is for, one at a time, in publish order, never one twice. A packet it is for and published after its connection is never lost silently: it is queued, shown, or dropped at the high-water mark. A packet queued for a window is eventually processed there, and a whole 168-byte long event message is added to the event page's output. The sources send 6- and 168-byte datagrams. |
| displays | MCTelemetryWindows.cfg | pass | Over whole packets and two faulty ones (a mode of 4 past the four enum labels, a packet one byte short inside its string field), each value the page shows for the last packet, up to the first field that raises, is the value that was sent (`DisplayedValueIsSentValue`). `StaleSlotsAreATail`: the slots left stale by a raise form one tail of the page, never a stale field between fresh ones, and the next whole packet refreshes them all; the mutant that wraps each call in its own try/except breaks it. Beside it, every page counter of the telemetry system window is the number of packets of its stream id, with two pages on one id and with stream id 0. The main-window subscription selects exactly the chosen spacecraft. With up to 11 spacecraft, `Spacecraft1` is never confused with `Spacecraft10` or `Spacecraft11`, because the subscription ends in `.TelemetryPackets`. |
| commands | MCCommandPages.cfg | pass | Every `cmdUtil` run for a page's command goes to the host, port, packet id and byte order of that page's own row, with the code chosen. A quick button sends the quick command named after its page. Through the dialog, it gets one argument per filled field, in order, with strings as `len:value`, and a press with no more filled fields than parameters always sends. Beside them:<br>- `CHeaderParser.py` on the sample headers offers exactly the headers' brace blocks as structures.<br>- Its structure scan always ends.<br>- In the CTF cFS plugin, commands go only to registered targets.<br>- When `InterpretEventLog` reads a cFE log into another file, each line it writes describes the entry at its index in the log as it was when the call began, or an all-zero entry past the log's end.<br>- Each parameter file `HTMLDocsParser.py` writes lists its page's non-header fields in order, with their types and names, and each string's size as the headers define it (or the user's answer for a size 0).<br>- Once inside a page's field loop, `HTMLDocsParser.py` gets out of it: its macro search ends. |
| cmd_rows | MCCommandPages_rows.cfg | violation | The EVS row is missing its port. The page stays valid, but the port list is one short, so EVS's commands go to TBL's port 1236. |
| generators | MCGenerators.cfg | pass | For every `sch.in` of up to three rows, each WU or HK application whose rows fit is sent in exactly the minor frames its rate and first frame ask for, once in each, and the script ends. For an `sch.in` listed in priority order, each minor frame holds its messages packed at the front in priority order, and a row misses a frame it visits only when rows of at least its priority fill it (`ActivitiesInPriorityOrder`). Over any three runs of `gen_app_code.py`, no run hits an `IOError`. After a run with documented keys, every file left in the tree includes only headers that are there, and it finds each type and macro it uses (table types, private types, `HkTlm_t`, `EVT_CNT`) in its include closure. The flight makefile builds sources that are there and that define every function they call. |
| table_makefile | MCGeneratorsTables.cfg | violation | With `TBLS cds` alone, the tables makefile names `<app>_iloads.tbl`, whose source `<app>_iloads.c` the same run removes. |
| sch_fast | MCSchTable_fast.cfg | violation | A rate above the number of minor frames makes the increment 0, and the script loops forever. |
| hdr_oneline | MCCHeaderParser_oneline.cfg | violation | A command structure written on one line (`typedef struct { ... } X_t;`) keeps the structure scan on that line forever, appending the same structure on every pass. |
| cfs_mult | MCCfsPlugin_mult.cfg | violation | `send_mult_cfs_commands` to all targets sends every repetition to the first target and none to the others. |

### Bounds

- **Stream ids in MCTopic:** `0`, `0x8`, `0x80`, `0x800`, `0x886`, `0x887` and `0x1803`. They cover the zero case, leading digits, and ids whose hex forms are prefixes of one another.
- **Spacecraft in MCTopic:** up to 11, so ordinals with two digits occur.
- **Routing run, datagrams:** up to 4 datagrams (`MaxDatagrams`), each of length 5 or 6. This brackets the header boundary.
- **Routing run, launches:** one system started from the main window (`MaxLaunches`), at any point of the behaviour and for any address then in the combo box. One launch already shows a subscription built from a name list that lags the router's; the pipeline run starts none (`MaxLaunches = 0`). The pipeline run also leaves out the main window's `UpdateIpList`: it touches only the GUI list and the signal queue, which nothing in the pipeline reads, and the routing run checks it.
- **Routing run, addresses:** two addresses, enough for two discoveries, reordered first datagrams, and a lost first datagram. A third address would only add more of the same discovery orders.

- **Pipeline run:** two datagrams, `Hwm` 1, datagrams of 6 and 168 bytes (a header-only packet and a whole long event message), two consumers: a generic page for stream 0x800 on `Spacecraft1`, and an event page for 0x808 opened from "All". Two datagrams are enough for a late join between them, a drop at a full queue, and two packets whose order could be swapped. Three datagrams take over ten minutes. The telemetry-system window's receiver is the same action as the page's.
- **Decode:** four fields (byte decimal, byte enum, 16-bit hex, 2-byte string) in five slots, so one slot is unused. Packets cover zero values, every label, and two 16-bit words whose bytes differ.
- **Counters:** sixteen pages in 21 slots, so slot 15 is a page and padding slots exist; three packets of three stream ids.
- **Commands:** three pages, two command pages started, one dialog at a time, three `cmdUtil` runs. That is enough for a page command, a quick command and a dialog send in one behaviour. The dialog has three fields for two parameters, so a field past the last parameter can be filled, and two presses.
- **Scheduler table:** four minor frames of two slots, files of up to three rows drawn from seven. Rates 1, 2 and 4 divide the frame count and rate 3 does not. Two rows at rate 2 and a 4 Hz row share frames, so a frame fills up.
- **Application generator:** one application and three runs. That is enough for a run to leave files behind that the next run, with other keys, does not rewrite; the hazards are all stale files of one earlier run. More applications would only repeat the same loop on a separate tree.
- **Header parser:** the two sample headers and the empty file list. The headers have 17 lines: three command defines (one dropped by the comment cut), a message id taken as a third command, and two structures. The user may type 16 or 200 for a macro size; 200 is rejected and asked again. `MaxStructs` 2 is the number of structures the headers hold, so it never cuts a correct scan. In `hdr_oneline` it is 3, which is room for the repetition to show. With up to three commands written one after another, both the used and the unused list change, and so does the file map.
- **HTML docs parser:** four pages and three headers. Together they reach every path of the loop: a header skip, scalar and string fields, a description of two texts, a size found through two macros, a page without fields, a page with only its header, the `ValueError` path and the `input()` prompt. The user's two answers give two different pickles.
- **Composition:** in `MCCommandPages` each of the five components (pages with dialog, header parser, cFS plugin, requirement validation plugin, HTML docs parser) steps only while the others are at their initial state. The reachable states of each are all reached, and they add up to about 993,000 states in about two and a half minutes.
- **CfsPlugin:** `MaxSent` 2 commands per target and `mult` 0 or 2, so a repeated command to two targets is within reach.

### Fairness

- `RouterReceive` is weakly fair. `recvfrom` returns whenever a datagram is waiting and the thread is alive.
- `UpdateIpList` is weakly fair. Qt's event loop runs every queued slot while the application runs.
- Sources, loss and the operator's close get no fairness.
- `SchTable` is weakly fair as a whole: the script runs to its end unless it loops. This is what lets `Terminates` fail only when the loop itself does not advance.
- In `CHeaderParser` only the structure scan (`ScanStep`, `HpScan` in the composition) is weakly fair: it is the script's own loop and needs no input. The user's answers get no fairness, because a user may stop answering at any prompt.
- In `HTMLDocsParser` every step but the `input()` answer is weakly fair (`ParseStep`, `HtParse` in the composition): it is the script's own loop. In the composition one weak fairness covers `HpScan \/ HtParse`; the two are never enabled together, because each needs the other parser at its start, so this is weak fairness for each.
- In the pipeline, each connect, receiver thread and GUI slot is weakly fair. ZeroMQ completes a connect in the background, and a `QThread` blocked in `recv` and a Qt event loop run whenever they have input.

### Deadlock checking

The routing and pipeline cfgs set `CHECK_DEADLOCK FALSE`. Once the sources stop sending, the router legitimately blocks in `recvfrom` forever. The display cfgs set it because the page and the window stop only at their packet bounds. The scheduler-table and generator cfgs set it because the scripts end. The `cfs_mult` cfg checks deadlock: a test script can always make another call. The command cfgs set it because every bound (pages, dialogs, runs) can be used up; the operator could otherwise always press again. The header parser also really ends, at `done`, `exit` or an exception.

## Findings

1. **Substring discovery.** `RoutingService.py:60` tests for a substring, and `RoutingService.py:68` then raises an uncaught `ValueError`. Together they kill routing when one address is a substring of an earlier one.
2. **"All" pages receive nothing.** Pages launched from a telemetry system opened on "All" never receive anything (`TelemetrySystem.py:116`). `EventMessage` works around this case; `GenericTelemetry` does not.
3. **A short page row shifts the ports.** `CommandSystem.py:267` catches the `IndexError` of a row missing a field after the row's earlier fields were appended. The page stays valid, the later lists are one short, and its commands go to the next page's port (run `cmd_rows`).
4. **Endless scheduler loop.** `gen_sch_tbl.py:99` computes `numMinorFrames / rate` as an integer, which is 0 for a rate above the frame count, and the `while` loop never advances (run `sch_fast`).
5. **Repeated command reaches one target.** `cfs_plugin.py:465` sets the repeat counter once for all targets (run `cfs_mult`).
6. **Tables makefile without its source.** `app_code_builds.py:190` always names `<app>_iloads.tbl`, and `generate_table_makefile` writes the file for `cds` alone. `generate_default_iload_source` removes the iload source in that case (run `table_makefile`).
7. **One-line structure hangs the header parser.** At `CHeaderParser.py:301` the scan does not advance past a `{` line. The inner loop then finds `}` on that same line and breaks without advancing either. A structure on one line is found again on every pass, `list_cmd_structs` grows without bound, and the script never reaches the structure prompt (run `hdr_oneline`).

Further observations from modelling, without a run (the ones a model checker can reach are listed as hazards in `PROJECT.json`):
- From slot 15 on, `TelemetrySystem.py:213` writes each page's count into the next slot's count widget, and slot 20 writes `countBrowser_21`, which the window does not set up. The model keeps the write (`CountWidget`), but widget rendering is outside the spec, so no run checks it.
- `CommandSystem.py:128` starts every page with the class of the first row; `CommandSystem.py:299` has no `try`, so a blank line in `quick-buttons.txt` stops the window from opening; page slot 21 has no Display Page button.
- Page subscriptions are byte prefixes, so ids whose hex forms nest would cross-talk. Real telemetry ids all have three hex digits, so none nest.
- `gen_app_code.py:16` imports `app_code_readme`, which is not in the repository, so the script as it stands stops at its import. The model assumes the module is there. Its README file is the only thing it writes, and nothing else depends on it.
- The unit-test makefile (`app_code_tests.py:95`) builds `ut_<app>.c`, but `generate_ut_main` is never called.
- `CHeaderParser.py:418` calls `parser.findKeyword`, which the class does not define. Any parameter of a type other than `uint8`, `boolean`, `uint16`, `uint32`, `uint64` or a `[` array (for example `int16`) ends the script with `AttributeError`. The model takes this path.
- `CHeaderParser.py:178` takes every three-part `#define` as a command, message ids included. A command define whose `//` comment holds a `/*` is cut at the `/*` and dropped. A `{` with no `}` after it raises `IndexError` (`CHeaderParser.py:315`).
- `EventMessage.py:85` unpacks the event text with `<122sxx` from byte 44, so only a 168-byte packet is shown. Every other packet is counted in the sequence count and then raises in the slot. The `pipeline` run checks that whole long event messages are shown. No run claims what the page should do with other lengths.
- `ReqValidation_Plugin.py:98-100` prints the whole years and then all days since the epoch, not the day of the year: two years and a day in reads `0002:731`. `InterpretedLogDescribesEntries` checks that days, hours, minutes and seconds add up to the entry's time. It says nothing about the years field.
- `ReqValidation_Plugin.py:52` opens the output for writing before line 54 reads the input. Given the same file as both, the log is emptied first and the text describes 20 all-zero entries; TLC reaches this state. `InterpretedLogDescribesEntries` is stated for distinct files only.
- `ReqValidation_Plugin.py:61` always writes 20 lines. For a shorter log, the lines past its end describe all-zero events. The model includes them.
- `HTMLDocsParser.py:135` stores the answer to Python 2's `input()`, an int, in `stringLen`. `Parameter.py:61` concatenates `stringLen[i]` with strings, which raises `TypeError` for that field. The model records the int (the `WRITE_CDS` page), but no run checks the dialog against it.
- `HTMLDocsParser.py:118` ends a field only at a text containing `uint` or `char`. Fields of other types (`int32`, `boolean`, cFE typedefs) become part of the previous field's description, so `findDataTypeNew`'s `boolean` branch is only reached by a first field. A macro defined as an expression (`(A + B + 4)`) resolves to its first term. The pages of the run avoid these cases; `PickledFieldsAreStructFields` states what they break.
- `gen_sch_tbl.py:93-96` says rows are filled in priority order, but the loop takes them in file order and never reads PRIO. `ActivitiesInPriorityOrder` holds for an `sch.in` in priority order. Without that precondition, TLC finds an `sch.in` out of priority order where a lower-priority row takes the first slot of a frame.
- The parameter scan in `Parameter.py:58` has no bound, so filling all ten fields raises `IndexError`.
- A short packet (`GenericTelemetry.py:31`) or an out-of-range enum (`GenericTelemetry.py:37`) raises in the middle of the 40 display calls, so the page shows two packets at once. The spec leaves the policy for these cases open. The `displays` run checks what the code does: the stale slots form one tail starting at the failing field (`StaleSlotsAreATail`), and the next whole packet repairs the page.

## Not modelled yet, and the plan

The following are not modelled, and why:
- **Text of the generated files** (dates, owner, mission, the C bodies) is abstracted to includes, definitions, calls, types and macros. `app_code_version.py` only holds a version string, and the commented-out global types header is never written.
- **`installPlugins.py`** only copies files.
- **`TlmMQRecv.py`** only prints what it receives.
- **`HTMLDocsParser.py`'s HTML parsing and globs** are abstracted to the text nodes of each page and the lines of each header; its prints are left out.
- **`CHeaderParser.py`'s file reading** (`getFileList`'s own file of paths) is abstracted to the lines the headers hold. The code's substring tests for `{`, `}`, `/*` and `//` are modelled as token tests; the sample headers write those tokens apart.
- **Display formatting** is left out; no property is about it.
- **Operator edits of the command window's line edits** (pktid, address) are left out: the model sends what the rows give.
- **`CommandParser.py`** generates the command pickles and is outside the spec's scope; the model's pickles have lists of equal length.
