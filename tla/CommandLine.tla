---------------------------- MODULE CommandLine -----------------------------
(***************************************************************************)
(* What config.parseFlags and NewKitchen make of the command line of a     *)
(* process, as operators: no state.  A flag that is not given has its      *)
(* default; --order-types is the sequence of its entries, each with the    *)
(* blanks around it.                                                       *)
(***************************************************************************)
EXTENDS OrderRules

LogLevels == {"DEBUG", "INFO", "WARN", "ERROR"}
Modes == {"order-service", "kitchen-worker", "tracking-service", "notification-subscriber"}

(* What package flag parses a command line into.                           *)
Flags ==
    [mode: STRING, port: Int, logLevel: STRING, maxConcurrent: Int, workerName: Nat,
     orderTypes: Seq([word: STRING, blanks: BOOLEAN]), heartbeat: Int, prefetch: Int]

DefaultFlags ==
    [mode |-> "", port |-> -1, logLevel |-> "DEBUG", maxConcurrent |-> 50,
     workerName |-> 0, orderTypes |-> << >>, heartbeat |-> 30, prefetch |-> 1]

(* parseFlags returns no error.  A name is its number of characters.       *)
FlagsAccepted(f) ==
    /\ f.logLevel \in LogLevels \cup {""}
    /\ f.mode \in Modes
    /\ f.mode = "order-service" => f.maxConcurrent \in 0 .. 1000
    /\ f.mode = "kitchen-worker" => f.workerName # 0

DefaultOrderServicePort == 3000
MaxPort == 65535

(* The tracking service takes the flag as it is: its pointer is never nil, *)
(* so DefaultTrackingServicePort is never used.                            *)
Port(f) ==
    IF f.mode = "order-service" /\ f.port \notin 1024 .. MaxPort
    THEN DefaultOrderServicePort
    ELSE f.port

-----------------------------------------------------------------------------
(* ValidateOrderTypes, its loop as a fold over the entries.                *)

TrimSpace(entry) == entry.word

NothingRead == [err |-> "", types |-> << >>]

(* The slip of a check for duplicates that sees the blanks.                *)
ReadEntryUntrimmed(read, entry) ==
    IF read.err # "" \/ TrimSpace(entry) = "" THEN read
    ELSE IF ~entry.blanks /\ entry.word \in ToSet(read.types)
         THEN [read EXCEPT !.err = "ErrDuplicateOrderType"]
    ELSE IF entry.word \notin AllOrderTypes THEN [read EXCEPT !.err = "ErrInvalidOrderType"]
    ELSE [read EXCEPT !.types = Append(@, entry.word)]

ReadEntry(read, entry) ==
    LET word == TrimSpace(entry)
    IN  IF read.err # "" \/ word = "" THEN read
        ELSE IF word \in ToSet(read.types) THEN [read EXCEPT !.err = "ErrDuplicateOrderType"]
        ELSE IF word \notin AllOrderTypes THEN [read EXCEPT !.err = "ErrInvalidOrderType"]
        ELSE [read EXCEPT !.types = Append(@, word)]

ValidateOrderTypes(entries) ==
    LET read == FoldLeft(ReadEntry, NothingRead, entries)
    IN  IF entries = << >> THEN [err |-> "", types |-> SetToSeq(AllOrderTypes)]
        ELSE IF read.err = "" /\ read.types = << >> THEN [read EXCEPT !.err = "ErrEmptyOrderTypes"]
        ELSE read

(* Words of --order-types that are not blank.                              *)
Words(entries) == {i \in DOMAIN entries : entries[i].word # ""}

(* What the documentation asks of them: there are some, each is an order   *)
(* type, and none comes twice.                                             *)
TypesAreValid(entries) ==
    \/ entries = << >>
    \/ /\ Words(entries) # {}
       /\ \A i \in Words(entries) :
             /\ entries[i].word \in AllOrderTypes
             /\ \A j \in Words(entries) \ {i} : entries[j].word # entries[i].word

validateWorkerName(chars) == chars \in 1 .. 100

(* NewKitchen gets as far as its connections.                              *)
KitchenAccepted(f) ==
    /\ validateWorkerName(f.workerName)
    /\ ValidateOrderTypes(f.orderTypes).err = ""
    /\ f.heartbeat > 5

(* The process of that command line gets as far as its connections.        *)
Launches(f) ==
    /\ FlagsAccepted(f)
    /\ f.mode = "kitchen-worker" => KitchenAccepted(f)

(* http.ListenAndServe can listen at this port.                            *)
CanListen(port) == port \in 0 .. MaxPort
=============================================================================
