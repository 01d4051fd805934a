-------------------------- MODULE WorkerEnrollVerify --------------------------
(***************************************************************************)
(* WorkerEnrollVerify: the task of one enrollment or verification.  It     *)
(* consumes the image queue, tells the sensor when to start and stop, and  *)
(* commits a finished enrollment to the storage.  Whether an image merges  *)
(* or matches is a choice here.                                            *)
(***************************************************************************)
EXTENDS DeviceVars

Put(e) == event_queue' = Append(event_queue, e)

\* wait_image(): takes the next event at once if there is one, or sleeps as a
\* getter of the queue.
wait_image(wk, w) ==
    \/ /\ image_queue # <<>>
       /\ workers' = Got(wk, w, Head(image_queue))
       /\ image_queue' = Tail(image_queue)
       /\ pending_get' = pending_get \ {w}
    \/ /\ image_queue = <<>> /\ w \notin pending_get
       /\ workers' = [wk EXCEPT ![w] = [@ EXCEPT !.got = "none", !.ready = FALSE]]
       /\ pending_get' = pending_get \cup {w}
       /\ UNCHANGED image_queue

\* Mutant of reset: the queue keeps what earlier sessions left in it.
reset_Forgotten(wk, w) == wait_image(wk, w)

\* Queue::reset() and the wait for the next event, on the emptied queue.
reset(wk, w) ==
    /\ image_queue' = <<>>
    /\ pending_get' = {w}
    /\ workers' = [CancelGetters(wk) EXCEPT ![w].ready = FALSE]

\* enroll(): resets the image queue, starts the sensor, waits for an event.
enroll(w) ==
    /\ workers[w].pc = "enroll"
    /\ finger_present' = FALSE
    /\ reset([workers EXCEPT ![w].pc = "parse_image"], w)
    /\ Put("StartSensor")
    /\ UNCHANGED <<alive, storeVars>>

\* Mutant of End: the task ends and the sensor is not told.
End_Quiet(w) ==
    /\ workers' = Finish(workers, w)
    /\ UNCHANGED <<queueVars, event_queue>>

\* stop() and the last step of parse_image(): the sensor is told to stop.
End(w) ==
    /\ Put("StopSensor")
    /\ workers' = Finish(workers, w)
    /\ UNCHANGED queueVars

\* Mutant of Commit: the enrollment is not saved.
Commit_Unsaved(w) ==
    /\ prints' = [prints EXCEPT ![workers[w].user] = @ \cup {workers[w].finger}]
    /\ UNCHANGED disk

\* insert_or_update() and save().
Commit(w) ==
    LET stored == [prints EXCEPT ![workers[w].user] = @ \cup {workers[w].finger}]
    IN  prints' = stored /\ disk' = stored

\* The prints that a verification compares an image with.
Candidates(w) ==
    {f \in prints[workers[w].user] : workers[w].finger \in {AnyFinger, f}}

\* Mutant of EnrollImage: a verification collects templates as well.
EnrollImage_Verify(w) == workers[w].got = "Image"

EnrollImage(w) == workers[w].got = "Image" /\ ~workers[w].verify

FingerDown(w) ==
    /\ workers[w].got = "FingerDown"
    /\ finger_present' = TRUE
    /\ wait_image(workers, w)
    /\ UNCHANGED <<alive, event_queue, storeVars>>

VerifyMatch(w) ==
    /\ workers[w].got = "Image" /\ workers[w].verify
    /\ Candidates(w) # {}
    /\ End(w)
    /\ UNCHANGED <<alive, finger_present, storeVars>>

\* verify-retry-scan, or enroll-remove-and-retry for an image that does not
\* merge; the first image of an enrollment always does.
Retry(w) ==
    /\ workers[w].got = "Image"
    /\ workers[w].verify \/ workers[w].count > 0
    /\ wait_image(workers, w)
    /\ UNCHANGED <<alive, finger_present, event_queue, storeVars>>

StagePassed(w) ==
    /\ EnrollImage(w)
    /\ workers[w].count + 1 < MAX_TEMPLATES
    /\ wait_image([workers EXCEPT ![w].count = @ + 1], w)
    /\ UNCHANGED <<alive, finger_present, event_queue, storeVars>>

EnrollCompleted(w) ==
    /\ EnrollImage(w)
    /\ workers[w].count + 1 >= MAX_TEMPLATES
    /\ Commit(w)
    /\ End(w)
    /\ UNCHANGED <<alive, finger_present>>

Stopped(w) ==
    /\ workers[w].got = "EnrollVerifyStop"
    /\ End(w)
    /\ UNCHANGED <<alive, finger_present, storeVars>>

\* handle_error(): a cancelled getter ends the task, and the sensor is not told.
Cancelled(w) ==
    /\ workers[w].got = "cancelled"
    /\ workers' = Finish(workers, w)
    /\ UNCHANGED <<alive, finger_present, queueVars, event_queue, storeVars>>

\* The assertion on the image's size: an image of another size ends the daemon.
WrongSize(w) ==
    /\ workers[w].got = "Image"
    /\ Die
    /\ UNCHANGED <<workers, finger_present, queueVars, event_queue, storeVars>>

parse_image(w) ==
    \/ FingerDown(w) \/ VerifyMatch(w) \/ Retry(w) \/ StagePassed(w)
    \/ EnrollCompleted(w) \/ Stopped(w) \/ Cancelled(w) \/ WrongSize(w)

\* The task was resumed without an event (Release does that): its getter is
\* polled again, which fails if it is still linked and the queue is empty.
GetPolled(w) ==
    /\ workers[w].got = "none"
    /\ \/ wait_image(workers, w) /\ UNCHANGED alive
       \/ image_queue = <<>> /\ w \in pending_get /\ Die /\ UNCHANGED <<workers, queueVars>>
    /\ UNCHANGED <<finger_present, event_queue, storeVars>>

WorkerStep(w) ==
    /\ alive /\ ~polling /\ workers[w].ready
    /\ \/ enroll(w)
       \/ workers[w].pc = "parse_image" /\ (parse_image(w) \/ GetPolled(w))
    /\ UNCHANGED <<polling, busVars, messages, deviceVars, listeners, boundVars>>
================================================================================
