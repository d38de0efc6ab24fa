----------------------------- MODULE MessageReceipts -----------------------------
(***************************************************************************)
(* MessageReceipts: the send state of messages, and the receipts that      *)
(* advance it.  A receipt is first a row of syncTasks, so that a crash     *)
(* does not lose it; processReceiptBatcher applies it to its message if it *)
(* finds that sent, and forMessage takes it if the message comes later, as *)
(* the transcript of another device does.  The send of a message marks     *)
(* what it has sent in the same state.                                     *)
(*                                                                         *)
(* The write connection of the database serves writes in the order of the  *)
(* requests, from the queue "writes"; a crash loses what is left of it.    *)
(***************************************************************************)
EXTENDS Naturals, SequencesExt

CONSTANTS
    Messages, Recipients,
    Synced,        \* the messages that another device has sent
    Receipts,      \* records: of a message, from a recipient, for a status
    MaxAttempts,   \* of the send job
    MaxEvents      \* bound on retries by the user and restarts

\* SendStatus, in the order of STATUS_NUMBERS.
Failed == 0
Pending == 1
Sent == 2
Delivered == 3
Read == 4
Viewed == 5
Statuses == Failed..Viewed
Undelivered == {Pending, Failed} \* UNDELIVERED_SEND_STATUSES

ASSUME MessageReceiptsAssumption ==
    /\ Synced \subseteq Messages /\ IsFiniteSet(Receipts)
    /\ Receipts \subseteq [of : Messages, from : Recipients,
                           status : {Delivered, Read, Viewed}]
    /\ MaxAttempts \in Nat \ {0} /\ MaxEvents \in Nat

VARIABLES
    sent,      \* sendStateByConversationId of the messages in memory
    stored,    \* that of the messages that have a row
    tasks,     \* the table syncTasks
    writes,    \* the writes asked of the database, and by whom
    receiving, \* where the handler of a receipt stands
    cached,    \* cachedReceipts
    items,     \* the items of processReceiptBatcher
    batch,     \* what it does for each message, and with which receipts
    send,      \* where the send of a message of ours stands
    accepted,  \* who the server has accepted a message for
    handle,    \* where the handler of a transcript stands
    \* for the properties
    missed,    \* receipts that no batch has found a message for
    early,     \* receipts that forMessage has taken
    lost,      \* and those that a crash has lost
    events     \* for the bound

receipting == <<receiving, cached, items, batch>>
sending == <<send, accepted, events>>
ghosts == <<missed, early, lost>>
vars == <<sent, stored, tasks, writes, receipting, sending, handle, ghosts>>

Ours == Messages \ Synced
All(status) == [r \in Recipients |-> status]
NoBatch == [step |-> "idle", receipts |-> {}]
NoSend == [step |-> "queued", attempt |-> 0, to |-> {}, ok |-> {}]

InitProcess ==
    /\ writes = <<>> /\ cached = {} /\ items = {}
    /\ batch = [m \in Messages |-> NoBatch]
    /\ missed = {} /\ early = {}

Init ==
    /\ InitProcess
    /\ sent = [m \in Messages |-> All(IF m \in Synced THEN Sent ELSE Pending)]
    /\ stored = [m \in Ours |-> sent[m]]
    /\ tasks = {} /\ receiving = [x \in Receipts |-> "none"]
    /\ send = [m \in Ours |-> NoSend]
    /\ accepted = [m \in Messages |-> IF m \in Synced THEN Recipients ELSE {}]
    /\ handle = [m \in Synced |-> "none"]
    /\ lost = {} /\ events = 0

-----------------------------------------------------------------------------
\* The send state, and the writes.

Larger(a, b) == IF a > b THEN a ELSE b

\* sendStateReducer, for the status that the action stands for.
SendStateReducer(old, new) ==
    IF old = Pending /\ new = Failed THEN Failed ELSE Larger(old, new)

\* updateMessageSendStateWithReceipt for some receipts of a message, one after the
\* other: none is for Failed or Pending, so the greatest status stays.
WithReceipts(state, receipts) ==
    [r \in Recipients |->
        Max({state[r]} \cup {x.status : x \in {y \in receipts : y.from = r}})]

\* The row of its message shows the receipt.
Covered(x) ==
    x.of \in DOMAIN stored /\ stored[x.of][x.from] >= x.status

\* A write: what it does to the rows and to the tasks.
Write(rows, added, removed, by) ==
    [rows |-> rows, added |-> added, removed |-> removed, by |-> by]
Save(m, state, by) == <<Write([n \in {m} |-> state], {}, {}, by)>>
RemoveTasks(receipts, by) ==
    IF receipts = {} THEN <<>> ELSE <<Write(<<>>, {}, receipts, by)>>
Store(x) == <<Write(<<>>, {x}, {}, <<"store", x>>)>>

\* Who has asked for a write waits for it.
Writing(by) == \E i \in DOMAIN writes : writes[i].by = by

Serve ==
    /\ writes # <<>> /\ writes' = Tail(writes)
    /\ stored' = LET rows == Head(writes).rows IN
                 [m \in DOMAIN rows \cup DOMAIN stored |->
                     IF m \in DOMAIN rows THEN rows[m] ELSE stored[m]]
    /\ tasks' = (tasks \cup Head(writes).added) \ Head(writes).removed
    /\ UNCHANGED <<sent, receipting, sending, handle, ghosts>>

-----------------------------------------------------------------------------
\* onDeliveryReceipt and onReadOrViewReceipt.

\* A receipt comes from a recipient who has got the message.
Receive(x) ==
    /\ receiving[x] = "none" /\ x.from \in accepted[x.of]
    /\ receiving' = [receiving EXCEPT ![x] = "storing"]
    /\ writes' = writes \o Store(x)
    /\ UNCHANGED <<sent, stored, tasks, cached, items, batch, sending, handle,
                   ghosts>>

\* saveSyncTasks has returned: the envelope is confirmed, and onReceipt follows.
OnReceipt(x) ==
    /\ receiving[x] = "storing" /\ ~Writing(<<"store", x>>)
    /\ receiving' = [receiving EXCEPT ![x] = "confirmed"]
    /\ cached' = cached \cup {x} /\ items' = items \cup {x}
    /\ UNCHANGED <<sent, stored, tasks, writes, batch, sending, handle, ghosts>>

-----------------------------------------------------------------------------
\* processReceiptBatcher: one batch at a time.

Kick ==
    /\ items # {} /\ \A m \in Messages : batch[m] = NoBatch
    /\ batch' = [m \in Messages |->
                    LET receipts == {x \in items : x.of = m} IN
                    IF receipts = {} THEN NoBatch
                    ELSE [step |-> "finding", receipts |-> receipts]]
    /\ items' = {}
    /\ UNCHANGED <<sent, stored, tasks, writes, receiving, cached, sending,
                   handle, ghosts>>

To(m, step, receipts) ==
    batch' = [batch EXCEPT ![m] = IF receipts = {} THEN NoBatch
                                  ELSE [step |-> step, receipts |-> receipts]]

\* getMessagesBySentAt and getTargetMessage: in the database, the message has been
\* sent to those whom the receipts are from.
Find(m) ==
    /\ batch[m].step = "finding"
    /\ LET found == {x \in batch[m].receipts :
                        m \in DOMAIN stored /\ stored[m][x.from] \notin Undelivered}
       IN /\ To(m, "found", found)
          /\ missed' = missed \cup (batch[m].receipts \ found)
    /\ UNCHANGED <<sent, stored, tasks, writes, receiving, cached, items,
                   sending, handle, early, lost>>

\* Mutant of Apply: the tasks are removed with the save, before it.
ApplyRemoving(m) ==
    LET valid == batch[m].receipts \cap cached
        state == WithReceipts(sent[m], valid) IN
    /\ batch[m].step = "found" /\ \A n \in Messages : batch[n].step # "finding"
    /\ sent' = [sent EXCEPT ![m] = state]
    /\ cached' = cached \ valid
    /\ writes' = writes \o RemoveTasks(valid, <<"batch", m>>)
                      \o Save(m, state, <<"batch", m>>)
    /\ To(m, "applied", valid)
    /\ UNCHANGED <<stored, tasks, receiving, items, sending, handle, ghosts>>

\* processReceiptsForMessage, in memory, with the writes that it asks for.
Apply(m) ==
    LET valid == batch[m].receipts \cap cached
        state == WithReceipts(sent[m], valid) IN
    /\ batch[m].step = "found" /\ \A n \in Messages : batch[n].step # "finding"
    /\ sent' = [sent EXCEPT ![m] = state]
    /\ writes' = writes \o Save(m, state, <<"batch", m>>)
    /\ batch' = [batch EXCEPT ![m] = [step |-> "applied", receipts |-> valid]]
    /\ UNCHANGED <<stored, tasks, receiving, cached, items, sending, handle,
                   ghosts>>

\* remove of the valid receipts, one after the other; the batch of the message ends
\* when all are removed.
RemoveNext(m) ==
    /\ batch[m].step = "applied" /\ ~Writing(<<"batch", m>>)
    /\ IF batch[m].receipts = {}
       THEN batch' = [batch EXCEPT ![m] = NoBatch] /\ UNCHANGED <<cached, writes>>
       ELSE \E x \in batch[m].receipts :
              /\ cached' = cached \ {x}
              /\ writes' = writes \o RemoveTasks({x}, <<"batch", m>>)
              /\ batch' = [batch EXCEPT ![m].receipts = @ \ {x}]
    /\ UNCHANGED <<sent, stored, tasks, receiving, items, sending, handle, ghosts>>

-----------------------------------------------------------------------------
\* The transcript of a message that another device has sent: modifyTargetMessage
\* before the message is saved and, from saveAndNotify, after.

Handling(m, step) == handle[m] = step /\ ~Writing(<<"handle", m>>)

\* MessageReceipts.forMessage takes the receipts that are there, and waits for
\* their removal.
ForMessage(m) ==
    LET taken == {x \in cached : x.of = m} IN
    /\ cached' = cached \ taken
    /\ writes' = writes \o RemoveTasks(taken, <<"handle", m>>)
    /\ early' = early \cup taken
    /\ missed' = missed \ taken

\* The two runs.  What they take is in "early" until the process ends, also when
\* it has been applied and saved.
FirstRun(m) ==
    /\ Handling(m, "none") /\ ForMessage(m)
    /\ handle' = [handle EXCEPT ![m] = "first"]
    /\ UNCHANGED <<sent, stored, tasks, receiving, items, batch, sending, lost>>

\* Mutant of SecondRun: it does not look at the receipts.
SecondRunIdle(m) ==
    /\ Handling(m, "saving")
    /\ handle' = [handle EXCEPT ![m] = "second"]
    /\ UNCHANGED <<sent, stored, tasks, writes, receipting, sending, ghosts>>

SecondRun(m) ==
    /\ Handling(m, "saving") /\ ForMessage(m)
    /\ handle' = [handle EXCEPT ![m] = "second"]
    /\ UNCHANGED <<sent, stored, tasks, receiving, items, batch, sending, lost>>

\* The receipts of a run are applied and the message saved: a new one by
\* saveNewMessageBatcher, with what it then is; in the second run if it changed.
Modify(m) ==
    LET state == WithReceipts(sent[m], {x \in early : x.of = m}) IN
    /\ \/ Handling(m, "first") /\ handle' = [handle EXCEPT ![m] = "saving"]
       \/ Handling(m, "second") /\ handle' = [handle EXCEPT ![m] = "done"]
    /\ sent' = [sent EXCEPT ![m] = state]
    /\ writes' = IF handle[m] = "first" \/ state # sent[m]
                 THEN writes \o Save(m, state, <<"handle", m>>) ELSE writes
    /\ UNCHANGED <<stored, tasks, receipting, sending, ghosts>>

-----------------------------------------------------------------------------
\* The send of a message of ours: sendNormalMessage and, under it, send().

Sending(m, step) == send[m].step = step /\ ~Writing(<<"send", m>>)
Unsent(m) == {r \in Recipients : sent[m][r] < Sent}
SaveNow(m, state) == writes' = writes \o Save(m, state, <<"send", m>>)

\* An attempt, for those it has not been sent to (getMessageRecipients).
Begin(m) ==
    /\ Sending(m, "queued")
    /\ send' = [send EXCEPT ![m] =
                   IF Unsent(m) = {} THEN [NoSend EXCEPT !.step = "sent"]
                   ELSE [step |-> "sending", attempt |-> @.attempt + 1,
                         to |-> Unsent(m), ok |-> {}]]
    /\ UNCHANGED <<sent, stored, tasks, writes, receipting, accepted, events,
                   handle, ghosts>>

\* The server accepts the message for a recipient.
Accept(m, r) ==
    /\ Sending(m, "sending") /\ r \in send[m].to \ accepted[m]
    /\ accepted' = [accepted EXCEPT ![m] = @ \cup {r}]
    /\ UNCHANGED <<sent, stored, tasks, writes, receipting, send, events, handle,
                   ghosts>>

\* The promise of the send is settled: whom it succeeded for is known, though an
\* answer of the server may be lost.  The message is saved first.
Answer(m, ok) ==
    /\ Sending(m, "sending") /\ ok \subseteq send[m].to \cap accepted[m]
    /\ send' = [send EXCEPT ![m].step = "answered", ![m].ok = ok]
    /\ SaveNow(m, sent[m])
    /\ UNCHANGED <<sent, stored, tasks, receipting, accepted, events, handle,
                   ghosts>>

Final(m) == send[m].attempt = MaxAttempts

\* The marks of send(), in the state that it reads after the save: errors are
\* marked in the last attempt only.
Marked(m, state) ==
    [r \in Recipients |->
        CASE r \in send[m].ok -> SendStateReducer(state[r], Sent)
          [] r \in send[m].to \ send[m].ok /\ Final(m)
               -> SendStateReducer(state[r], Failed)
          [] OTHER -> state[r]]

\* Mutant of MarkSent: it marks the state that it has saved before the answer.
MarkStale(m) ==
    /\ Sending(m, "answered")
    /\ send' = [send EXCEPT ![m].step = "marked"]
    /\ sent' = [sent EXCEPT ![m] = [r \in Recipients |->
                   IF r \in send[m].ok \/ r \notin send[m].to THEN Sent
                   ELSE @[r]]]
    /\ SaveNow(m, sent'[m])
    /\ UNCHANGED <<stored, tasks, receipting, accepted, events, handle, ghosts>>

MarkSent(m) ==
    /\ Sending(m, "answered")
    /\ send' = [send EXCEPT ![m].step = "marked"]
    /\ sent' = [sent EXCEPT ![m] = Marked(m, @)]
    /\ SaveNow(m, sent'[m])
    /\ UNCHANGED <<stored, tasks, receipting, accepted, events, handle, ghosts>>

\* The job is done, tried again, or over: in the last attempt, or because the
\* server asked for it (handleMultipleSendErrors, markFailed).
End(m) ==
    /\ Sending(m, "marked")
    /\ \/ /\ Unsent(m) = {}
          /\ send' = [send EXCEPT ![m] = [NoSend EXCEPT !.step = "sent"]]
          /\ UNCHANGED <<sent, writes>>
       \/ /\ Unsent(m) # {} /\ ~Final(m)
          /\ send' = [send EXCEPT ![m] = [NoSend EXCEPT !.attempt =
                                                      send[m].attempt]]
          /\ UNCHANGED <<sent, writes>>
       \/ /\ Unsent(m) # {}
          /\ send' = [send EXCEPT ![m] = [NoSend EXCEPT !.step = "failed"]]
          /\ sent' = [sent EXCEPT ![m] =
                         [r \in Recipients |-> SendStateReducer(@[r], Failed)]]
          /\ SaveNow(m, sent'[m])
    /\ UNCHANGED <<stored, tasks, receipting, accepted, events, handle, ghosts>>

\* retryMessageSend, by the user.
RetryMessageSend(m) ==
    /\ Sending(m, "failed") /\ events < MaxEvents /\ events' = events + 1
    /\ send' = [send EXCEPT ![m] = NoSend]
    /\ sent' = [sent EXCEPT ![m] = [r \in Recipients |->
                   IF @[r] >= Sent THEN @[r] ELSE SendStateReducer(@[r], Pending)]]
    /\ SaveNow(m, sent'[m])
    /\ UNCHANGED <<stored, tasks, receipting, accepted, handle, ghosts>>

-----------------------------------------------------------------------------
\* The process ends and another begins, which runs the tasks (runAllSyncTasks).
\* What was not confirmed comes again; a receipt that is a task already would be
\* a second one, and a transcript whose message has been saved is dropped as a
\* duplicate.  A send that was not over is a job again, and one whose retry has
\* not been saved is none.
Restart ==
    /\ events < MaxEvents /\ events' = events + 1
    /\ writes' = <<>> /\ cached' = tasks /\ items' = tasks
    /\ batch' = [m \in Messages |-> NoBatch] /\ missed' = {} /\ early' = {}
    /\ sent' = [m \in Messages |-> IF m \in DOMAIN stored THEN stored[m]
                                   ELSE All(Sent)]
    /\ lost' = lost \cup {x \in early \ tasks : ~Covered(x)}
    /\ receiving' = [x \in Receipts |-> IF receiving[x] = "confirmed" \/ x \in tasks
                                        THEN "confirmed" ELSE "none"]
    /\ handle' = [m \in Synced |-> IF m \in DOMAIN stored THEN "done" ELSE "none"]
    /\ send' = [m \in Ours |->
                   LET unwritten == Writing(<<"send", m>>) IN
                   IF \/ send[m].step \in {"sent", "failed"} /\ ~unwritten
                      \/ send[m].step = "queued" /\ unwritten
                   THEN [NoSend EXCEPT !.step = IF send[m].step = "sent"
                                                THEN "sent" ELSE "failed"]
                   ELSE NoSend]
    /\ UNCHANGED <<stored, tasks, accepted>>

Steps(m) ==
    \/ Find(m) \/ Apply(m) \/ RemoveNext(m)
    \/ m \in Synced /\ (FirstRun(m) \/ SecondRun(m) \/ Modify(m))

SendSteps(m) ==
    \/ Begin(m) \/ MarkSent(m) \/ End(m) \/ RetryMessageSend(m)
    \/ \E ok \in SUBSET send[m].to : Answer(m, ok)
    \/ \E r \in Recipients : Accept(m, r)

Next ==
    \/ Serve \/ Kick \/ Restart
    \/ \E x \in Receipts : Receive(x) \/ OnReceipt(x)
    \/ \E m \in Messages : Steps(m)
    \/ \E m \in Ours : SendSteps(m)

\* The database answers, batchers and handlers go on, and the transcript of a
\* message comes in the end.
Fairness ==
    /\ WF_vars(Serve) /\ WF_vars(Kick)
    /\ \A x \in Receipts : WF_vars(OnReceipt(x))
    /\ \A m \in Messages : WF_vars(Steps(m))

Spec == Init /\ [][Next]_vars /\ Fairness
-----------------------------------------------------------------------------
States == [Recipients -> Statuses]

TypeOK ==
    /\ sent \in [Messages -> States]
    /\ Ours \subseteq DOMAIN stored /\ \A m \in DOMAIN stored : stored[m] \in States
    /\ tasks \cup cached \cup items \cup missed \cup early \cup lost
         \subseteq Receipts
    /\ receiving \in [Receipts -> {"none", "storing", "confirmed"}]
    /\ batch \in [Messages -> [step : {"idle", "finding", "found", "applied"},
                               receipts : SUBSET Receipts]]
    /\ send \in [Ours -> [step : {"queued", "sending", "answered", "marked",
                                  "sent", "failed"},
                          attempt : 0..MaxAttempts, to : SUBSET Recipients,
                          ok : SUBSET Recipients]]
    /\ accepted \in [Messages -> SUBSET Recipients] /\ events \in 0..MaxEvents
    /\ handle \in [Synced -> {"none", "first", "saving", "second", "done"}]

\* A receipt whose envelope has been confirmed is in the database, as a task or in
\* the row of its message.  The exception is what forMessage has taken since the
\* process began, or had taken when one ended before the message was saved: it
\* removes the task first.
ConfirmedIsDurable ==
    \A x \in Receipts : receiving[x] = "confirmed" =>
        x \in tasks \/ Covered(x) \/ x \in early \cup lost

\* "We should never go backwards" (MessageSendState): once a message has been sent
\* to somebody, its row does not fall back, though a send, its retries, a batch
\* and forMessage save what each has read at another time.
NeverBackwards ==
    [][\A m \in DOMAIN stored, r \in Recipients :
          stored[m][r] >= Sent => stored'[m][r] >= stored[m][r]]_vars

\* Every receipt reaches the row of its message, however it races with the
\* transcript of the message (a batch that comes too early leaves it to
\* forMessage) and across restarts.  One for a message of ours that is not marked
\* as sent when the batch looks waits for the next start.
EveryReceiptLands ==
    \A x \in Receipts : receiving[x] = "confirmed" ~>
        Covered(x) \/ x \in lost \/ (x \in missed /\ x.of \in Ours)
=============================================================================
