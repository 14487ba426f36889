----------------------------- MODULE MCAdapters -------------------------------
(***************************************************************************)
(* The adapters, each on its own behind the same port: a behaviour is one  *)
(* of the adapter chosen at the start.                                     *)
(***************************************************************************)
EXTENDS AdapterPort

CONSTANTS
    Adapters,     \* the adapters a run checks
    Sleepers, Delays, WaitCeiling, MaxClock,
    Entries, MaxNotYet, OpenFiles, MaxAttach, StorageStage, StoragePayload,
    Connections, Pending, BufferCells, CommandCells, MaxEvents,
    HttpPending, BodyCells, MaxBody, Authorities, Links, WsPending, FrameRoom, MaxMessages

VARIABLE adapter   \* the one this behaviour is of

Sample  == INSTANCE SampleAdapters
\* A storage adapter's payload is two cells, so that a read can be shorter.
Storage == INSTANCE StorageAdapters WITH StageCells <- StorageStage, PayloadCells <- StoragePayload
Net     == INSTANCE NetAdapter
Http    == INSTANCE HttpAdapter
Ws      == INSTANCE WsAdapter

Init ==
    /\ adapter \in Adapters
    /\ \/ adapter = "time"    /\ Sample!TimeInit
       \/ adapter = "entropy" /\ Sample!EntropyInit
       \/ adapter = "store"   /\ Storage!StoreInit
       \/ adapter = "fs"      /\ Storage!FsInit
       \/ adapter = "net"     /\ Net!NetInit
       \/ adapter = "http"    /\ Http!HttpInit
       \/ adapter = "ws"      /\ Ws!WsInit

Next ==
    /\ \/ adapter = "time"    /\ Sample!TimeNext
       \/ adapter = "entropy" /\ Sample!EntropyNext
       \/ adapter = "store"   /\ Storage!StoreNext
       \/ adapter = "fs"      /\ Storage!FsNext
       \/ adapter = "net"     /\ Net!NetNext
       \/ adapter = "http"    /\ Http!HttpNext
       \/ adapter = "ws"      /\ Ws!WsNext
    /\ UNCHANGED adapter

vars == <<adapter, pvars>>
Spec == Init /\ [][Next]_vars

----------------------------------------------------------------------------

Live(table) == {table[i].request : i \in {j \in DOMAIN table : table[j].live}}

\* Every call is answered once: by the step that takes it, by a retry or by
\* what the adapter waited for, and none by two of them or by none.  The
\* network adapters drop an answer that finds the buffer full.
AnsweredOnceEach ==
    CASE adapter = "time"           -> Accounted(Live(state.sleepers))
      [] adapter = "entropy"        -> Accounted({})
      [] adapter \in {"store", "fs"} ->
            Accounted(IF state.waiting.live THEN {state.waiting.request} ELSE {})
      [] adapter = "http"           -> Accounted(Live(state.held))
      [] OTHER                      -> AnsweredOnce(Live(state.held))

\* The bytes a program writes or reads are its own: a write puts down those of
\* its call though it was held, a connection's and a response's are handed
\* over whole and in order, an empty read means there are no more, and no
\* message of a link is lost, doubled or passed by another.
OwnBytes ==
    CASE adapter = "fs"   -> Storage!OwnBytesWritten
      [] adapter = "net"  -> Net!StreamWhole /\ Net!OwnBytesReceived
      [] adapter = "http" -> Http!OwnBodyRead /\ Http!EmptyMeansWhole /\ Http!CreditCovers
      [] adapter = "ws"   -> Ws!MessagesKept
      [] OTHER            -> TRUE

\* What a provider has open is what the adapter has in use, and each goes to
\* the call that asked for it: descriptors are given back on every path, a
\* connection is that of its own dial, one exchange goes on at a time, and a
\* link's number is not claimed while the provider still has it up.
HandlesKept ==
    CASE adapter = "store" -> Storage!DescriptorsKept
      [] adapter = "fs"    -> Storage!FilesKept
      [] adapter = "net"   -> Net!OwnDialAnswered
      [] adapter = "http"  -> Http!OneExchange
      [] adapter = "ws"    -> Ws!LinkIsOneLink
      [] OTHER             -> TRUE

\* What is held is finished as it was asked.  No sleep ends early or is
\* forgotten at a hang-up.  A question that the store or the file provider
\* has not decided is asked again, for the same call and member and over the
\* same payload, before another is; what is read through an open object or
\* file goes on from where the last answer ended, and has no more than was
\* wanted, but that a held readAt of fs has up to a whole chunk.  A net answer
\* for which a step found room is told.  Nothing is asked of the store before
\* its grant, nothing is created in a read-only fs, and each adapter keeps to
\* its own rule of a quota: past it store, fs and entropy refuse every call
\* and time all but held sleeps, http performs no more requests and net hands
\* out no more connections while one dial is out at a time.
HeldAsAsked ==
    CASE adapter = "time"    -> Sample!NoEarlyWake /\ Sample!EndsWithNobodyAsleep /\ Sample!TimeWithinQuota
      [] adapter = "entropy" -> Sample!QuotaIsSpentOnce
      [] adapter = "store"   -> /\ Storage!ReadsGoOn /\ Storage!AskedAgainAsItWas
                                /\ Storage!NothingBeforeTheGrant /\ Storage!StoreWithinQuota
      [] adapter = "fs"      -> /\ Storage!FsReadsGoOn /\ Storage!FsAskedAgain
                                /\ Storage!ReadOnlyKept /\ Storage!FsWithinQuota
      [] adapter = "net"     -> Net!ServedIsTold /\ Net!ConnectionsWithinQuota
      [] adapter = "http"    -> Http!RequestsWithinQuota
      [] OTHER               -> TRUE
===============================================================================
