------------------------------ MODULE MCStreams ------------------------------
EXTENDS Streams

\* Bounds: wait_for_stream is called while wait() is not, and what may happen
\* to the handle then is that it is closed.  A filter raises, or a join finds
\* streams that have not come yet, while a caller waits, wait() is not called
\* and the handle has not ended; it is not closed then until the next stream has come.
\* No such step is a fair one.
Finding == \E f \in Finders : finder[f] # "none"
Waited ==
  /\ unheard = {} /\ waiter = "none" /\ state \notin Stopped \cup {"timeouted"}
  /\ \E f \in Finders : finder[f] = "waiting"

MCNext ==
  \/ ConsumeStreams \/ Wake \/ CancelWait
  \/ unheard = {} /\ CloseHandle
  \/ ~Finding /\ Renew
  \/ ~Finding /\ SetException
  \/ ~Finding /\ Wait
  \/ \E i \in 1..Current : TimerFires(i)
  \/ \E s \in StreamIds : \/ TaskStep(s) \/ StreamAdded(s) \/ StreamRemoved(s)
                          \/ ~Finding /\ CallbackRaises(s)
                          \/ ~Finding /\ CallbackTimesOut(s)
  \/ \E f \in Finders : \/ FinderStep(f) \/ FinderTimesOut(f)
                        \/ waiter = "none" /\ WaitForStream(f)
                        \/ Waited /\ FilterRaises(f)
  \/ DispatchStep \/ Clean
  \/ Waited /\ \E S \in SUBSET {s \in StreamIds : task[s] = "new"} \ {{}} : Join(S)
MCSpec == Init /\ [][MCNext]_vars /\ Fairness
=============================================================================
