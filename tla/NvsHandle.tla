------------------------------ MODULE NvsHandle ------------------------------
(***************************************************************************)
(* espp::NVSHandle (the second file of                                     *)
(* src/components/display_drivers/include/ili9341.hpp, lines 233-461): a    *)
(* handle on one NVS namespace, and the application that calls it.         *)
(*                                                                         *)
(* Every call reports through the std::error_code the caller passes.  The  *)
(* caller either declares a fresh error_code for each call or keeps one    *)
(* across calls (ReuseErrorCode); the handle only ever sets it.            *)
(*                                                                         *)
(* The ESP-IDF NVS store is abstracted to typed items per key: a uint8_t   *)
(* (which also carries bools) or a zero-terminated string.  Strings are    *)
(* sequences of characters from Chars; NUL is the terminator.  NVS looks  *)
(* an item up by key and type, so a get of one type under a key holding   *)
(* the other type finds nothing.  A call on                                *)
(* the null handle a failed open leaves is a null dereference: the program *)
(* crashes.                                                                 *)
(*                                                                         *)
(* The device may lose power or reset at any point (a crash panics into a  *)
(* reset); the application then restarts and constructs a new handle.     *)
(* Only what reached flash survives: a set may reach it at once, but only  *)
(* a successful commit guarantees it (nvs_commit's contract).              *)
(***************************************************************************)
EXTENDS Naturals, Sequences, SequencesExt

CONSTANTS
    Keys,            \* NVS keys the application uses
    KeyLen,          \* strlen of each key
    NamespaceLens,   \* strlen of the namespace name passed to the constructor
    U8Values,        \* uint8_t values the application stores
    Chars,           \* characters of stored strings
    NUL,             \* '\0'
    MaxStrLen,       \* longest string the application stores
    ReuseErrorCode,  \* the application passes one error_code to every call
    MaxReboots       \* bound on power losses and resets

ASSUME /\ KeyLen \in [Keys -> Nat] /\ NamespaceLens \subseteq Nat
       /\ U8Values \subseteq 0..255 /\ {0, 1} \subseteq U8Values
       /\ NUL \notin Chars /\ ReuseErrorCode \in BOOLEAN

Ok == "ok"
ErrorCodes == {Ok, "Namespace_Length_Too_Long", "Open_NVS_Handle_Failed",
               "Key_Length_Too_Long", "Key_Not_Found", "Read_NVS_Failed",
               "Write_NVS_Failed", "Commit_NVS_Failed"}

Absent == [type |-> "none"]
Strings == BoundedSeq(Chars, MaxStrLen)
Items == [type : {"u8"}, val : U8Values] \cup [type : {"sz"}, val : Strings]
Ops == {"init", "get_u8", "get_bool", "get_str", "set_u8", "set_bool",
        "set_str", "commit", "clear_ec"}
NoKey == "none"

VARIABLES
    handle,    \* handle: the unique_ptr to nvs::NVSHandle, "open" or "null"
    ec,        \* the application's error_code
    items,     \* the namespace's contents as NVS returns them
    outU8,     \* the application's uint8_t the get overload writes
    outBool,   \* the application's bool
    outStr,    \* the application's std::string
    crashed,   \* a call dereferenced the null handle
    lastOp,    \* history: the latest call, its key, whether ec was clear
               \* when it began (entryOk) and after it (ok)
    flash,     \* the namespace's contents that survive a reset
    promised,  \* history: per key, the items a read may return now, given
               \* the sets and commits the application saw succeed
    durable,   \* history: per key, the items a reset may leave behind
    reboots    \* resets so far

store == <<items, flash>>
history == <<promised, durable>>
vars == <<handle, ec, store, outU8, outBool, outStr, crashed, lastOp,
          history, reboots>>

-----------------------------------------------------------------------------
(* Conversions                                                              *)

\* Faulty variant: true stored as 0xFF.
BoolToU8AllOnes(b) == IF b THEN 255 ELSE 0

\* static_cast<uint8_t>(bool)
BoolToU8(b) == IF b THEN 1 ELSE 0

\* static_cast<bool>(uint8_t)
U8ToBool(u) == u # 0

\* The characters of value.data() up to the first '\0' (set_string).
CStr(s) ==
    LET i == SelectInSeq(s, LAMBDA c : c = NUL)
    IN  IF i = 0 THEN s ELSE SubSeq(s, 1, i - 1)

\* get_item_size(ItemType::SZ, ...): the size includes the terminator.
ItemSize(s) == Len(s) + 1

\* std::string::resize(n): keep a prefix, pad with '\0'.
Resize(s, n) == [i \in 1..n |-> IF i <= Len(s) THEN s[i] ELSE NUL]

\* get_string(key, value.data(), len): the string and its terminator.
GetString(s, n) == Resize(s \o <<NUL>>, n)

\* check_key_length: strlen(key) > 15
KeyTooLong(k) == KeyLen[k] > 15

\* get<T>'s default case: any error of get_item but ESP_ERR_NVS_NOT_FOUND.
OtherReadError == "Read_NVS_Failed"

-----------------------------------------------------------------------------
(* The constructor NVSHandle(ns_name, ec)                                   *)

\* The constructor leaves handle h and error_code e.
Opened(h, e) ==
    \E nsLen \in NamespaceLens :
        \/ nsLen > 15 /\ h = "null" /\ e = "Namespace_Length_Too_Long"
        \/ nsLen <= 15 /\ h = "open" /\ e = Ok
        \/ nsLen <= 15 /\ h = "null" /\ e = "Open_NVS_Handle_Failed"

\* The application's variables, value-initialised where it declares them.
AppVarsInit(u, b, str) == u = 0 /\ b = FALSE /\ str = <<>>

Init ==
    /\ flash = [k \in Keys |-> Absent]   \* erased; earlier boots are Reboot
    /\ items = flash /\ reboots = 0
    /\ promised = [k \in Keys |-> {Absent}] /\ durable = promised
    /\ AppVarsInit(outU8, outBool, outStr)
    /\ crashed = FALSE
    /\ Opened(handle, ec)
    /\ lastOp = [op |-> "init", key |-> NoKey, entryOk |-> TRUE, ok |-> ec = Ok]

-----------------------------------------------------------------------------
(* Calls                                                                    *)

\* The error_code the call starts with.
EcAtEntry == IF ReuseErrorCode THEN ec ELSE Ok

Record(op, k) ==
    lastOp' = [op |-> op, key |-> k, entryOk |-> EcAtEntry = Ok, ok |-> ec' = Ok /\ ~crashed']

\* The common start of get and set: check_key_length(key, ec), which sets
\* ec only for a long key; if (ec) return, which also returns on an error
\* the caller's error_code held before; then the NVS API is called on
\* handle.  Body is what the API call does when handle is open.
Keyed(op, k, Body) ==
    /\ ~crashed
    /\ \/ /\ KeyTooLong(k)
          /\ ec' = "Key_Length_Too_Long"
          /\ UNCHANGED <<handle, store, outU8, outBool, outStr, crashed,
                         history>>
       \/ /\ ~KeyTooLong(k) /\ EcAtEntry # Ok    \* returns at once
          /\ ec' = EcAtEntry
          /\ UNCHANGED <<handle, store, outU8, outBool, outStr, crashed,
                         history>>
       \/ /\ ~KeyTooLong(k) /\ EcAtEntry = Ok
          /\ UNCHANGED handle
          /\ \/ handle = "null" /\ crashed' = TRUE /\ ec' = Ok
                /\ UNCHANGED <<store, outU8, outBool, outStr, history>>
             \/ handle = "open" /\ crashed' = FALSE /\ Body
    /\ Record(op, k)
    /\ UNCHANGED reboots

\* get_item<uint8_t>: on ESP_OK, Store hands items[k].val to the caller.
GetItem(k, Store) ==
    /\ UNCHANGED <<store, history>>
    /\ \/ /\ items[k].type = "u8"
          /\ Store /\ ec' = Ok
       \/ /\ items[k].type # "u8"                    \* ESP_ERR_NVS_NOT_FOUND
          /\ ec' = "Key_Not_Found"
          /\ UNCHANGED <<outU8, outBool, outStr>>
       \/ /\ ec' = OtherReadError                    \* flash read error
          /\ UNCHANGED <<outU8, outBool, outStr>>

\* get<uint8_t>(key, value, ec)
GetU8(k) ==
    Keyed("get_u8", k,
          GetItem(k, outU8' = items[k].val /\ UNCHANGED <<outBool, outStr>>))

\* get(key, bool&, ec): through a uint8_t, assigned only if !ec.
GetBool(k) ==
    Keyed("get_bool", k,
          GetItem(k, outBool' = U8ToBool(items[k].val)
                       /\ UNCHANGED <<outU8, outStr>>))

\* get(key, std::string&, ec): get_item_size, value.resize(len), get_string.
GetStr(k) ==
    Keyed("get_str", k,
      /\ UNCHANGED <<store, outU8, outBool, history>>
      /\ \/ /\ items[k].type # "sz"                     \* get_item_size fails
            /\ ec' = "Read_NVS_Failed" /\ UNCHANGED outStr
         \/ /\ items[k].type = "sz"
            /\ LET len == ItemSize(items[k].val) IN
               \/ outStr' = GetString(items[k].val, len) /\ ec' = Ok
               \/ outStr' = Resize(outStr, len)           \* get_string fails
                  /\ ec' = "Read_NVS_Failed")

\* set_item / set_string: store the item (it may already reach flash), or
\* fail to write.  A set the application sees succeed is what a read now
\* returns, and one more item a reset may leave behind.
SetItem(k, item) ==
    /\ UNCHANGED <<outU8, outBool, outStr>>
    /\ \/ /\ items' = [items EXCEPT ![k] = item] /\ ec' = Ok
          /\ flash' \in {flash, [flash EXCEPT ![k] = item]}
          /\ promised' = [promised EXCEPT ![k] = {item}]
          /\ durable' = [durable EXCEPT ![k] = @ \cup {item}]
       \/ UNCHANGED <<store, history>> /\ ec' = "Write_NVS_Failed"

\* set<uint8_t>(key, value, ec)
SetU8(k, v) == Keyed("set_u8", k, SetItem(k, [type |-> "u8", val |-> v]))

\* set(key, bool, ec): through a uint8_t.
SetBool(k, b) ==
    Keyed("set_bool", k, SetItem(k, [type |-> "u8", val |-> BoolToU8(b)]))

\* set(key, const std::string&, ec): set_string(key, value.data()).
SetStr(k, s) ==
    Keyed("set_str", k, SetItem(k, [type |-> "sz", val |-> CStr(s)]))

\* Faulty variant: a failed commit not reported.
CommitErrorIgnored == EcAtEntry

\* if (err != ESP_OK) ec = Commit_NVS_Failed
CommitError == "Commit_NVS_Failed"

\* commit(ec): handle->commit() without any check of handle or ec.  When
\* the application sees it succeed, what a read returns now is what a
\* reset leaves.
Commit ==
    /\ ~crashed
    /\ \/ handle = "null" /\ crashed' = TRUE /\ ec' = EcAtEntry /\ UNCHANGED flash
       \/ handle = "open" /\ ec' = EcAtEntry /\ flash' = items /\ UNCHANGED crashed
       \/ handle = "open" /\ ec' = CommitError /\ UNCHANGED <<crashed, flash>>
    /\ Record("commit", NoKey)
    /\ IF ec' = Ok /\ ~crashed'
         THEN durable' = promised
         ELSE UNCHANGED durable
    /\ UNCHANGED <<handle, items, outU8, outBool, outStr, promised, reboots>>

\* The application resets the error_code it keeps (ec.clear()).
ClearEc ==
    /\ ~crashed /\ ReuseErrorCode /\ ec # Ok
    /\ ec' = Ok
    /\ UNCHANGED <<handle, store, outU8, outBool, outStr, crashed, history,
                   reboots>>
    /\ Record("clear_ec", NoKey)

\* Power loss or reset, at any point: the application starts again and
\* constructs a new NVSHandle on what reached flash.
Reboot ==
    /\ reboots < MaxReboots
    /\ reboots' = reboots + 1
    /\ Opened(handle', ec')
    /\ items' = flash /\ promised' = durable
    /\ crashed' = FALSE /\ AppVarsInit(outU8', outBool', outStr')
    /\ lastOp' = [op |-> "init", key |-> NoKey, entryOk |-> TRUE, ok |-> ec' = Ok]
    /\ UNCHANGED <<flash, durable>>

Next ==
    \/ \E k \in Keys :
         \/ GetU8(k) \/ GetBool(k) \/ GetStr(k)
         \/ \E v \in U8Values : SetU8(k, v)
         \/ \E b \in BOOLEAN : SetBool(k, b)
         \/ \E s \in Strings : SetStr(k, s)
    \/ Commit
    \/ ClearEc
    \/ Reboot

Spec == Init /\ [][Next]_vars

-----------------------------------------------------------------------------
(* Properties                                                               *)

TypeOK ==
    /\ handle \in {"open", "null"}
    /\ ec \in ErrorCodes
    /\ items \in [Keys -> Items \cup {Absent}]
    /\ outU8 \in U8Values /\ outBool \in BOOLEAN
    /\ outStr \in BoundedSeq(Chars \cup {NUL}, MaxStrLen + 1)
    /\ crashed \in BOOLEAN
    /\ lastOp \in [op : Ops, key : Keys \cup {NoKey}, entryOk : BOOLEAN, ok : BOOLEAN]
    /\ flash \in [Keys -> Items \cup {Absent}]
    /\ promised \in [Keys -> SUBSET (Items \cup {Absent})]
    /\ durable \in [Keys -> SUBSET (Items \cup {Absent})]
    /\ reboots \in 0 .. MaxReboots

\* Reads return what the application wrote, across resets: a get of a
\* uint8_t or bool that the application sees succeed returns an item it
\* last set with success in this boot or, after a reset, one it set since
\* the last commit it saw succeed, or the item of that commit; a get that
\* starts with a clear error_code and reports Key_Not_Found has no such
\* uint8_t to return.  It takes sets, a commit that fails or succeeds,
\* a set that reaches flash early, and a reset in some order to break.
ReadsReturnWritten ==
    LET k == lastOp.key
        u8s == {i \in promised[k] : i.type = "u8"}
    IN  /\ (lastOp.ok /\ lastOp.op = "get_u8") => outU8 \in {i.val : i \in u8s}
        /\ (lastOp.ok /\ lastOp.op = "get_bool")
               => outBool \in {U8ToBool(i.val) : i \in u8s}
        /\ (lastOp.op \in {"get_u8", "get_bool"} /\ lastOp.entryOk
               /\ ec = "Key_Not_Found") => promised[k] # u8s

\* The error_code after a get reports that get (the doc comments: ec
\* "saves a std::error_code representing success or failure"): after a get
\* that reports Key_Not_Found, NVS holds no uint8_t under its key, whatever
\* the error_code held before the call.
ErrorCodeReportsCall ==
    (lastOp.op \in {"get_u8", "get_bool"} /\ ec = "Key_Not_Found")
        => items[lastOp.key].type # "u8"

\* A string read back with a clear error_code is the string NVS holds.
StringRoundTrip ==
    (lastOp.ok /\ lastOp.op = "get_str") => outStr = items[lastOp.key].val

\* No call dereferences the null handle a failed constructor leaves.
NoNullHandleUse == ~crashed
=============================================================================
