------------------------------- MODULE Recording -------------------------------
(***************************************************************************)
(* A recording and how it is read (tools/analyze_localization_bag.py,      *)
(* which the other tools import): the recorder writes files and may die at *)
(* any moment, a record may be damaged later, and the loader makes the     *)
(* best of what is left.                                                   *)
(*                                                                         *)
(* A record of a file is a chunk with the records nested in it; one that   *)
(* stands outside any chunk is a chunk of its own.  The contents are left  *)
(* out: a message is a topic, its receive time and its number.             *)
(***************************************************************************)
EXTENDS Integers, SequencesExt, Arrangement

CONSTANTS
    None,
    Topics, Retained,  \* retained_topics
    Times,             \* receive times
    MaxMessages, MaxFiles  \* bounds

ASSUME RecordingAssumption ==
    /\ Retained \subseteq Topics /\ Times \subseteq Nat
    /\ {MaxMessages, MaxFiles} \subseteq Nat \ {0}

VARIABLES
    files,      \* each with its records and how far its end was written
    chunk,      \* the recorder: what it has not yet flushed
    recording,
    written,    \* history: every message recorded
    loaded      \* what load_bag_messages returned

recordingVars == <<files, chunk, recording, written, loaded>>

\* A file without its first bytes is empty.
Endings == {"empty", "missing", "partial", "footer", "closed"}

-------------------------------------------------------------------------------
(* The recorder. *)

LastFile == files[Len(files)]

Declares(records, topic) == \E i \in DOMAIN records : records[i] = [channel |-> topic]

Declared(topic) ==
    \/ Declares(chunk, topic)
    \/ \E i \in DOMAIN LastFile.records : Declares(LastFile.records[i].content, topic)

Record(topic, time) ==
    LET message == [topic |-> topic, time |-> time, number |-> Len(written) + 1]
    IN  /\ recording /\ Len(written) < MaxMessages
        /\ written' = Append(written, message)
        /\ chunk' = (IF Declared(topic) THEN chunk ELSE Append(chunk, [channel |-> topic]))
                       \o <<[message |-> message]>>
        /\ UNCHANGED <<files, recording, loaded>>

\* The last file with the open chunk in it, ended as given.
Flushed(ending) ==
    LET records == IF chunk = <<>> THEN LastFile.records
                   ELSE Append(LastFile.records, [content |-> chunk, intact |-> Len(chunk)])
    IN  [files EXCEPT ![Len(files)] = [records |-> records, ending |-> ending]]

Flush ==
    /\ recording /\ chunk # <<>>
    /\ files' = Flushed("missing") /\ chunk' = <<>>
    /\ UNCHANGED <<recording, written, loaded>>

NewFile == [records |-> <<>>, ending |-> "missing"]

Split ==
    /\ recording /\ Len(files) < MaxFiles
    /\ files' = Append(Flushed("closed"), NewFile) /\ chunk' = <<>>
    /\ UNCHANGED <<recording, written, loaded>>

Close ==
    /\ recording /\ recording' = FALSE
    /\ files' = Flushed("closed") /\ chunk' = <<>>
    /\ UNCHANGED <<written, loaded>>

\* What was not flushed is lost; the end may be anything short of complete.
Crash ==
    /\ recording /\ recording' = FALSE
    /\ chunk' = <<>>
    /\ \/ \E ending \in Endings \ {"footer", "closed"} :
             /\ ending = "empty" => LastFile.records = <<>>
             /\ files' = [files EXCEPT ![Len(files)].ending = ending]
       \/ files' = Flushed("footer")
    /\ UNCHANGED <<written, loaded>>

\* Bound: one record is damaged.  Its checksum fails, or its content ends early.
Damage ==
    /\ ~recording /\ loaded = None
    /\ \A i \in DOMAIN files : \A j \in DOMAIN files[i].records :
          files[i].records[j].intact = Len(files[i].records[j].content)
    /\ \E i \in DOMAIN files : \E j \in DOMAIN files[i].records :
          \E intact \in 0..Len(files[i].records[j].content) - 1 :
             files' = [files EXCEPT ![i].records[j].intact = intact]
    /\ UNCHANGED <<chunk, recording, written, loaded>>

-------------------------------------------------------------------------------
(* The loader. *)

Damaged(record) == record.intact < Len(record.content)

\* decode_chunk, iter_buffer_records
Nested(record) == SubSeq(record.content, 1, record.intact)

\* recover_mcap_file reads on to the first record that is malformed.
RecordsRead(file) ==
    LET bad == {i \in DOMAIN file.records : Damaged(file.records[i])}
    IN  IF bad = {} THEN file.records ELSE SubSeq(file.records, 1, Min(bad))

Entries(file) == FlattenSeq([i \in DOMAIN RecordsRead(file) |-> Nested(RecordsRead(file)[i])])

\* A message of a channel the file has not declared is malformed, too.
Orphans(entries) ==
    {i \in DOMAIN entries : /\ "message" \in DOMAIN entries[i]
                            /\ ~Declares(SubSeq(entries, 1, i), entries[i].message.topic)}

Parsed(entries) ==
    IF Orphans(entries) = {} THEN entries ELSE SubSeq(entries, 1, Min(Orphans(entries)) - 1)

MessagesOf(file) ==
    LET entries == Parsed(Entries(file))
        messages == Chosen(entries, {i \in DOMAIN entries : "message" \in DOMAIN entries[i]})
    IN  [i \in DOMAIN messages |-> messages[i].message]

ParseError(file) ==
    \/ file.ending = "partial"
    \/ \E i \in DOMAIN file.records : Damaged(file.records[i])
    \/ Orphans(Entries(file)) # {}

HasClosingMagic(file) == file.ending = "closed"

Truncated(file) == ParseError(file) \/ ~HasClosingMagic(file)

\* Mutant: only the last file tells whether the bag is complete.
LastTruncated == Truncated(LastFile)

AnyTruncated == \E i \in DOMAIN files : Truncated(files[i])

\* Mutant: the messages stay in the order of the files.
Unsorted(messages) == messages

\* sort by receive time, stable
Sorted(messages) ==
    LET before(i, j) == \/ messages[i].time < messages[j].time
                        \/ messages[i].time = messages[j].time /\ i < j
        order == Arranged(DOMAIN messages, before)
    IN  [k \in DOMAIN order |-> messages[order[k]]]

\* The bounds are those of all messages, retained or not.
Result(messages, truncated) ==
    LET times == {messages[i].time : i \in DOMAIN messages}
        retained == {i \in DOMAIN messages : messages[i].topic \in Retained}
    IN  [messages  |-> Sorted(Chosen(messages, retained)),
         count     |-> Len(messages),
         start     |-> IF times = {} THEN None ELSE Min(times),
         end       |-> IF times = {} THEN None ELSE Max(times),
         truncated |-> truncated]

AllMessages == FlattenSeq([i \in DOMAIN files |-> MessagesOf(files[i])])

\* recover_mcap_bag
Recovered == Result(AllMessages, AnyTruncated)

\* Mutant: what the reader had returned before it failed is kept.
RecoveredAfter(read) == Result(read \o AllMessages, AnyTruncated)

\* A reader that fails half-way is given up, and the files are read again.
RecoveredInstead(read) == Recovered

\* The first bytes of a file are written with it; a crash may lose them.
Headed(file) == file.ending # "empty"

\* load_bag_messages, which raises if a file does not even begin: one empty file
\* and nothing is loaded of the whole bag.  The reader is tried on complete files
\* only; it may fail to open them, and fails at a damaged record.
Load ==
    /\ ~recording /\ loaded = None /\ \A i \in DOMAIN files : Headed(files[i])
    /\ LET damaged == \E i \in DOMAIN files : ParseError(files[i])
       IN  \/ loaded' = Recovered
           \/ /\ \A i \in DOMAIN files : HasClosingMagic(files[i])
              /\ loaded' = IF damaged THEN RecoveredInstead(AllMessages) ELSE Result(AllMessages, FALSE)
    /\ UNCHANGED <<files, chunk, recording, written>>

RecordingInit ==
    /\ files = <<NewFile>> /\ chunk = <<>> /\ recording = TRUE
    /\ written = <<>> /\ loaded = None

RecordingNext ==
    \/ \E topic \in Topics, time \in Times : Record(topic, time)
    \/ Flush \/ Split \/ Close \/ Crash \/ Damage \/ Load

-------------------------------------------------------------------------------
(* The window of the analysis. *)

\* resolve_analysis_window without limits given: a bag of one instant is refused.
WindowResolves == loaded.start # None /\ loaded.start < loaded.end

\* Mutant: the window ends before its last moment.
HalfOpenWindow(message) == loaded.start <= message.time /\ message.time < loaded.end

\* messages_in_receive_window
InWindow(message) == loaded.start <= message.time /\ message.time <= loaded.end

-------------------------------------------------------------------------------
(* The properties. *)

Numbers(messages) == {messages[i].number : i \in DOMAIN messages}

\* The numbers that can be read: no record before theirs in the file is damaged,
\* and in their own nothing before them.
Survivors ==
    UNION {UNION {{r.content[k].message.number :
                     k \in {n \in 1..r.intact : "message" \in DOMAIN r.content[n]}} :
                  r \in {files[i].records[j] : j \in
                           {n \in DOMAIN files[i].records :
                              \A before \in 1..n - 1 : ~Damaged(files[i].records[before])}}} :
           i \in DOMAIN files}

\* Of a recording that was cut off or damaged, every message before the damage is
\* returned, once, and nothing behind it, also when the reader had failed first
\* (recover_mcap_file, load_bag_messages).
SurvivorsAreLoaded ==
    loaded # None =>
        /\ Numbers(loaded.messages) = {n \in Survivors : written[n].topic \in Retained}
        /\ Len(loaded.messages) = Cardinality(Numbers(loaded.messages))
        /\ loaded.count = Cardinality(Survivors)

\* A bag that is not called truncated has lost nothing (truncated in
\* recover_mcap_file and recover_mcap_bag).
UntruncatedIsComplete ==
    loaded # None /\ ~loaded.truncated =>
        Numbers(loaded.messages) = {n \in DOMAIN written : written[n].topic \in Retained}

\* Messages come in the order of their times, also across files, those of one time
\* in the order recorded (messages.sort).
LoadedInOrder ==
    loaded # None => \A i, j \in DOMAIN loaded.messages : i < j =>
        \/ loaded.messages[i].time < loaded.messages[j].time
        \/ /\ loaded.messages[i].time = loaded.messages[j].time
           /\ loaded.messages[i].number < loaded.messages[j].number

\* Without limits the window holds every message, the first and the last included
\* (resolve_analysis_window, messages_in_receive_window).
WindowHoldsAll ==
    loaded # None /\ WindowResolves =>
        \A i \in DOMAIN loaded.messages : InWindow(loaded.messages[i])

\* A bag is what is left of its files, in order, and says so if that is not all.
BagIsWhatIsLeft ==
    SurvivorsAreLoaded /\ UntruncatedIsComplete /\ LoadedInOrder /\ WindowHoldsAll
================================================================================
