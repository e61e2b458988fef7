---------------------------- MODULE ChatMessages ----------------------------
(* The archive of chat messages: the gateway's handlers of new, edited,     *)
(* deleted and purged messages, its cache of recent texts, the files of     *)
(* attachments and the records in chat_messages.  What the handlers publish *)
(* afterwards is left to OrderedDelivery.                                   *)
EXTENDS Naturals, FiniteSets, SequencesExt

CONSTANTS
    Msgs,
    Texts,
    Blank,       \* the text of a message that has only an attachment
    Images,      \* digests of attached pictures
    None,
    Capacity,    \* message_cache_limit
    MaxEdits,    \* bound: edits of messages
    MaxTroubles  \* bound: crashes and failed calls

VARIABLES
    chat,     \* Discord: [at, text, image] of each message
    up,
    cache,    \* message_cache: text by message, None of what it has not
    order,    \* message_cache_order
    saving,   \* on_message in store_attachments: its step and snapshot
    temp,     \* the .part files
    files,    \* MEDIA_DIR by digest
    archive,  \* chat_messages
    excused,  \* history: messages whose record may be behind Discord
    edits, troubles

vars == <<chat, up, cache, order, saving, temp, files, archive, excused, edits, troubles>>

Written == Texts \cup {Blank}
Cached(m) == cache[m] # None
Idle == [step |-> "idle", text |-> Blank]
Live(m) == chat[m].at = "live"
Saving(m) == saving[m].step # "idle"
Trouble == troubles < MaxTroubles /\ troubles' = troubles + 1
Calm == UNCHANGED troubles

Init ==
    /\ chat = [m \in Msgs |-> [at |-> "unsent", text |-> Blank, image |-> None]]
    /\ up = TRUE
    /\ cache = [m \in Msgs |-> None] /\ order = <<>>
    /\ saving = [m \in Msgs |-> Idle]
    /\ temp = [k \in Msgs \cup Images |-> "none"]
    /\ files = [i \in Images |-> "none"]
    /\ archive = [m \in Msgs |-> None]
    /\ excused = {}
    /\ edits = 0 /\ troubles = 0

-----------------------------------------------------------------------------
(* The cache of texts. *)
Remember(m, text) ==
    LET queue == IF Cached(m) THEN order ELSE Append(order, m)
        excess == IF Len(queue) > Capacity THEN Len(queue) - Capacity ELSE 0
        kept == SubSeq(queue, excess + 1, Len(queue))
    IN  /\ order' = kept
        /\ cache' = [k \in Msgs |-> IF k \notin ToSet(kept) THEN None ELSE IF k = m THEN text ELSE cache[k]]

(* An edit of a message that the library has forgotten is put in without a  *)
(* look at the limit. *)
PutIn(m, text) ==
    /\ order' = IF Cached(m) THEN order ELSE Append(order, m)
    /\ cache' = [cache EXCEPT ![m] = text]

Forget(S) ==
    /\ order' = SelectSeq(order, LAMBDA k : k \notin S)
    /\ cache' = [k \in Msgs |-> IF k \in S THEN None ELSE cache[k]]

-----------------------------------------------------------------------------
(* Slip: a new record is written whole. *)
RecordedAnew(m, text, att) ==
    [text |-> text, att |-> att, edited |-> FALSE, deleted |-> FALSE]

(* record_chat_message: the marks of an edit or of a deletion that came     *)
(* first are left alone. *)
Recorded(m, text, att) ==
    IF archive[m] = None
    THEN [text |-> text, att |-> att, edited |-> FALSE, deleted |-> FALSE]
    ELSE [archive[m] EXCEPT !.text = text, !.att = IF att = "none" THEN @ ELSE att]

(* mark_chat_message_edited, which makes the record when there is none. *)
Edited(m, text) ==
    IF archive[m] = None
    THEN [text |-> text, att |-> "none", edited |-> TRUE, deleted |-> FALSE]
    ELSE [archive[m] EXCEPT !.text = text, !.edited = TRUE]

(* mark_chat_message_deleted, which makes a tombstone of what the cache has. *)
Buried(m, text) ==
    IF archive[m] = None
    THEN [text |-> text, att |-> "none", edited |-> FALSE, deleted |-> TRUE]
    ELSE [archive[m] EXCEPT !.deleted = TRUE]

(* mark_chat_messages_bulk_deleted: only what is recorded already. *)
AllBuried(S) ==
    [m \in Msgs |-> IF m \in S /\ archive[m] # None THEN Buried(m, Blank) ELSE archive[m]]

-----------------------------------------------------------------------------
(* on_message once the attachments are done with; a failed write is logged. *)
Ends(m, text, att) ==
    /\ saving' = [saving EXCEPT ![m] = Idle]
    /\ archive' = [archive EXCEPT ![m] = Recorded(m, text, att)]
    /\ UNCHANGED excused

EndsInVain(m) ==
    /\ saving' = [saving EXCEPT ![m] = Idle]
    /\ excused' = excused \cup {m}
    /\ UNCHANGED archive

(* A message is posted, with a picture that is to be downloaded, with an    *)
(* attachment that is only linked (its kind, its size, no room on the       *)
(* disk), or with none: those two are recorded before anything else runs.   *)
Post(m) ==
    /\ chat[m].at = "unsent"
    /\ \E text \in Written, image \in Images \cup {None}, linked \in BOOLEAN :
        /\ text = Blank => image # None \/ linked
        /\ image # None => ~linked
        /\ chat' = [chat EXCEPT ![m] = [at |-> "live", text |-> text, image |-> image]]
        /\ \/ ~up /\ excused' = excused \cup {m} /\ Calm /\ UNCHANGED <<cache, order, saving, archive>>
           \/ up /\ Remember(m, text)
              /\ \/ /\ image # None
                    /\ saving' = [saving EXCEPT ![m] = [step |-> "fetch", text |-> text]]
                    /\ Calm /\ UNCHANGED <<archive, excused>>
                 \/ image = None /\ Calm /\ Ends(m, text, IF linked THEN "link" ELSE "none")
                 \/ image = None /\ Trouble /\ EndsInVain(m)
    /\ UNCHANGED <<up, temp, files, edits>>

(* M08: each download writes a .part file of its own. *)
Part(m) == m

(* The download ends.  A picture that is on the disk is not written again.  *)
(* It may fail or run out of its time (the link stays), or the directory    *)
(* cannot be made, and then all attachments are left out of the record.     *)
Fetch(m) ==
    /\ saving[m].step = "fetch"
    /\ \/ /\ files[chat[m].image] = "none"
          /\ saving' = [saving EXCEPT ![m].step = "write"]
          /\ temp' = [temp EXCEPT ![Part(m)] = "part"]
          /\ Calm /\ UNCHANGED <<archive, excused>>
       \/ /\ files[chat[m].image] # "none"
          /\ Ends(m, saving[m].text, "stored")
          /\ Calm /\ UNCHANGED temp
       \/ /\ Trouble
          /\ \/ \E att \in {"link", "none"} : Ends(m, saving[m].text, att)
             \/ EndsInVain(m)
          /\ UNCHANGED temp
    /\ UNCHANGED <<chat, up, cache, order, files, edits>>

(* The .part file is written, or the disk is full and it is taken away. *)
Write(m) ==
    /\ saving[m].step = "write"
    /\ \/ /\ saving' = [saving EXCEPT ![m].step = "move"]
          /\ temp' = [temp EXCEPT ![Part(m)] = "whole"]
          /\ Calm /\ UNCHANGED <<archive, excused>>
       \/ /\ Trouble
          /\ temp' = [temp EXCEPT ![Part(m)] = "none"]
          /\ Ends(m, saving[m].text, "link")
    /\ UNCHANGED <<chat, up, cache, order, files, edits>>

Move(m) ==
    /\ saving[m].step = "move"
    /\ files' = [files EXCEPT ![chat[m].image] = temp[Part(m)]]
    /\ temp' = [temp EXCEPT ![Part(m)] = "none"]
    /\ \/ Calm /\ Ends(m, saving[m].text, "stored")
       \/ Trouble /\ EndsInVain(m)
    /\ UNCHANGED <<chat, up, cache, order, edits>>

-----------------------------------------------------------------------------
(* The library's copy of the message, if it has one, is the text before the *)
(* edit: it stays in the cache when the new text is empty. *)
Refreshed(m, seen, text) ==
    \/ seen /\ Remember(m, IF text = Blank THEN chat[m].text ELSE text)
    \/ ~seen /\ text # Blank /\ PutIn(m, text)
    \/ ~seen /\ text = Blank /\ UNCHANGED <<cache, order>>

(* on_raw_message_edit compares with the last text it knows. *)
Before(m, seen) ==
    IF Cached(m) /\ cache[m] # Blank THEN cache[m]
    ELSE IF seen THEN chat[m].text ELSE Blank

Edit(m) ==
    /\ edits < MaxEdits /\ edits' = edits + 1
    /\ Live(m)
    /\ \E text \in Written \ {chat[m].text}, seen \in (IF Cached(m) THEN BOOLEAN ELSE {FALSE}) :
        /\ text = Blank => chat[m].image # None \/ (archive[m] # None /\ archive[m].att = "link")
        /\ chat' = [chat EXCEPT ![m].text = text]
        /\ \/ /\ up /\ text # Before(m, seen)
              /\ Refreshed(m, seen, text)
              /\ \/ /\ Calm
                    /\ archive' = [archive EXCEPT ![m] = Edited(m, text)]
                    /\ excused' = IF Saving(m) \/ text = Blank THEN excused \cup {m} ELSE excused \ {m}
                 \/ Trouble /\ excused' = excused \cup {m} /\ UNCHANGED archive
           \/ /\ ~up \/ text = Before(m, seen)
              /\ excused' = IF ~up \/ text = Blank THEN excused \cup {m} ELSE excused
              /\ Calm /\ UNCHANGED <<cache, order, archive>>
    /\ UNCHANGED <<up, saving, temp, files>>

(* on_raw_message_delete. *)
Delete(m) ==
    /\ Live(m)
    /\ \/ /\ up /\ Forget({m}) /\ Calm
          /\ chat' = [chat EXCEPT ![m].at = "deleted"]
          /\ archive' = [archive EXCEPT ![m] = Buried(m, IF Cached(m) THEN cache[m] ELSE Blank)]
       \/ /\ up /\ Forget({m}) /\ Trouble
          /\ chat' = [chat EXCEPT ![m].at = "gone"]
          /\ UNCHANGED archive
       \/ /\ ~up /\ Calm
          /\ chat' = [chat EXCEPT ![m].at = "gone"]
          /\ UNCHANGED <<cache, order, archive>>
    /\ UNCHANGED <<up, saving, temp, files, excused, edits>>

(* on_raw_bulk_message_delete: a channel is purged. *)
Purge(S) ==
    /\ S # {} /\ \A m \in S : Live(m)
    /\ \/ /\ up /\ Forget(S) /\ Calm
          /\ chat' = [m \in Msgs |-> IF m \in S THEN [chat[m] EXCEPT !.at = "purged"] ELSE chat[m]]
          /\ archive' = AllBuried(S)
       \/ /\ up /\ Forget(S) /\ Trouble
          /\ chat' = [m \in Msgs |-> IF m \in S THEN [chat[m] EXCEPT !.at = "gone"] ELSE chat[m]]
          /\ UNCHANGED archive
    /\ UNCHANGED <<up, saving, temp, files, excused, edits>>

(* The container is killed: the cache and the handlers are lost. *)
Crash ==
    /\ up /\ Trouble /\ up' = FALSE
    /\ cache' = [m \in Msgs |-> None] /\ order' = <<>>
    /\ saving' = [m \in Msgs |-> Idle]
    /\ excused' = excused \cup {m \in Msgs : Saving(m)}
    /\ UNCHANGED <<chat, temp, files, archive, edits>>

Start ==
    /\ ~up /\ up' = TRUE
    /\ UNCHANGED <<chat, cache, order, saving, temp, files, archive, excused, edits, troubles>>

Next ==
    \/ \E m \in Msgs : Post(m) \/ Fetch(m) \/ Write(m) \/ Move(m) \/ Edit(m) \/ Delete(m)
    \/ \E S \in SUBSET Msgs : Purge(S)
    \/ Crash \/ Start

Spec == Init /\ [][Next]_vars

-----------------------------------------------------------------------------
(* The domains; the order lists each cached message once and no other. *)
TypeOK ==
    /\ \A m \in Msgs :
        /\ chat[m] \in [at : {"unsent", "live", "deleted", "purged", "gone"}, text : Written, image : Images \cup {None}]
        /\ saving[m] \in [step : {"idle", "fetch", "write", "move"}, text : Written]
        /\ archive[m] = None \/ archive[m] \in
            [text : Written, att : {"none", "link", "stored"}, edited : BOOLEAN, deleted : BOOLEAN]
    /\ \A k \in DOMAIN temp : temp[k] \in {"none", "part", "whole"}
    /\ IsInjective(order) /\ ToSet(order) = {m \in Msgs : Cached(m)} /\ \A m \in Msgs : cache[m] \in Written \cup {None}

(* A record that says that a picture is stored points to a whole file,      *)
(* whichever downloads of the same picture run side by side. *)
StoredIsWhole ==
    \A m \in Msgs : archive[m] # None /\ archive[m].att = "stored" => files[chat[m].image] = "whole"

(* A message whose deletion was handled has a tombstone from then on, also  *)
(* when its own record is written only afterwards. *)
DeletedStaysDeleted ==
    \A m \in Msgs : chat[m].at = "deleted" => archive[m] # None /\ archive[m].deleted

(* A record that is not excused (posted or edited in downtime, edited while *)
(* the attachments were on their way, emptied, or not written because of an *)
(* error) has the last text of the message, deleted or not: the content of  *)
(* what is deleted stays. *)
TextIsCurrent ==
    \A m \in Msgs \ excused :
        chat[m].at # "unsent" /\ ~Saving(m) => archive[m] # None /\ archive[m].text = chat[m].text

(* gateway.py:2509-2510: a purge, too, has to leave tombstones. *)
PurgedIsBuried ==
    \A m \in Msgs : chat[m].at = "purged" /\ archive[m] # None => archive[m].deleted
=============================================================================
