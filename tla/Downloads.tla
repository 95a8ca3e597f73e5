------------------------------ MODULE Downloads ------------------------------
(***************************************************************************)
(* Downloads of files by getFile (telegram-bot-api/Client.cpp).            *)
(*                                                                         *)
(* Queries for the same file listen to one download.  TDLib answers each   *)
(* downloadFile request with the file as it is then, and reports every     *)
(* change of it by an update, on the same ordered channel.  An update      *)
(* about a file that is not being downloaded means a failure only if the   *)
(* answer to a request was seen before (download_started_file_ids_):       *)
(* it may be about an earlier download.                                    *)
(*                                                                         *)
(* The module has no Next: Requests calls its operators.                   *)
(* "Fault:" marks variants with a bug the code does not have.              *)
(***************************************************************************)
EXTENDS Sequences, FiniteSets

CONSTANT File

\* What TDLib knows of a file is "idle", "active", "done", "big" or "big idle": the
\* big ones exceed MAX_DOWNLOAD_FILE_SIZE.
Active == {"active", "big"}
Big == {"big", "big idle"}

VARIABLES
  listeners,    \* file_download_listeners_: the queries that wait for each file
  started,      \* download_started_file_ids_
  toTd,         \* downloadFile and cancelDownloadFile requests on their way to TDLib
  fromTd,       \* its answers and updates on their way back
  remote        \* the files in TDLib

downloadVars == <<listeners, started, toTd, fromTd, remote>>

DownloadsInit ==
  /\ listeners = [f \in File |-> <<>>]
  /\ started = {}
  /\ toTd = [f \in File |-> <<>>]
  /\ fromTd = [f \in File |-> <<>>]
  /\ remote = [f \in File |-> "idle"]

Listening(f) == {listeners[f][i] : i \in DOMAIN listeners[f]}

(***************************************************************************)
(* The client.                                                             *)
(***************************************************************************)
\* do_get_file
DoGetFile(f, q) ==
  /\ listeners' = [listeners EXCEPT ![f] = Append(@, q)]
  /\ toTd' = [toTd EXCEPT ![f] = Append(@, "download")]
  /\ UNCHANGED <<started, fromTd, remote>>

\* do_get_file of a client that is closing: the request fails at once, and with it all that listen.
DoGetFileClosing(f) ==
  /\ listeners' = [listeners EXCEPT ![f] = <<>>]
  /\ started' = started \ {f}
  /\ UNCHANGED <<toTd, fromTd, remote>>

\* on_file_download
OnFileDownload(f) ==
  /\ listeners' = [listeners EXCEPT ![f] = <<>>]
  /\ started' = started \ {f}

\* Fault: a download that stops is still waited for.
EndsDownloadIfDone(state, begun) == state \in Big \cup {"done"}

\* on_update_file.  begun: the answer to a request was seen.
EndsDownload(state, begun) == state \in Big \cup {"done"} \/ (state = "idle" /\ begun)

OnUpdateFile(f, state, begun, closing) ==
  LET heard == listeners[f] # <<>>
      ends == heard /\ EndsDownload(state, begun)
  IN  /\ IF ends THEN OnFileDownload(f)
         ELSE started' = (IF begun THEN started \cup {f} ELSE started) /\ UNCHANGED listeners
      /\ toTd' = IF ends /\ state = "big" /\ ~closing THEN [toTd EXCEPT ![f] = Append(@, "cancel")] ELSE toTd
      /\ UNCHANGED remote

\* Fault: the answer does not tell that the download has begun.
OnFileAnswerForgetting(f, state, closing) == OnUpdateFile(f, state, f \in started, closing)

\* TdOnDownloadFileCallback with a file: the download has begun, if anyone still listens.
OnFileAnswer(f, state, closing) ==
  OnUpdateFile(f, state, f \in started \/ listeners[f] # <<>>, closing)

\* updateFile
OnFileUpdate(f, state, closing) == OnUpdateFile(f, state, f \in started, closing)

\* TdOnDownloadFileCallback with an error
OnFileError(f) ==
  OnFileDownload(f) /\ UNCHANGED <<toTd, remote>>

\* on_closed
DownloadsClosed ==
  /\ listeners' = [f \in File |-> <<>>]
  /\ started' = {}
  /\ UNCHANGED <<toTd, fromTd, remote>>

(***************************************************************************)
(* TDLib.                                                                  *)
(***************************************************************************)
Report(kind, state) == [kind |-> kind, state |-> state]

\* A request starts the download, unless it is finished or fails at once.
TdDownload(f) ==
  /\ toTd[f] # <<>> /\ Head(toTd[f]) = "download"
  /\ toTd' = [toTd EXCEPT ![f] = Tail(@)]
  /\ \E state \in (IF remote[f] \in Big THEN {"big"}
                   ELSE IF remote[f] = "idle" THEN {"active", "idle"} ELSE {remote[f]}) :
       /\ remote' = [remote EXCEPT ![f] = state]
       /\ fromTd' = [fromTd EXCEPT ![f] = Append(@, Report("answer", state))]
  /\ UNCHANGED <<listeners, started>>

TdRefuses(f) ==
  /\ toTd[f] # <<>> /\ Head(toTd[f]) = "download"
  /\ toTd' = [toTd EXCEPT ![f] = Tail(@)]
  /\ fromTd' = [fromTd EXCEPT ![f] = Append(@, Report("error", "idle"))]
  /\ UNCHANGED <<listeners, started, remote>>

TdCancels(f) ==
  /\ toTd[f] # <<>> /\ Head(toTd[f]) = "cancel"
  /\ toTd' = [toTd EXCEPT ![f] = Tail(@)]
  /\ IF remote[f] \in Active
     THEN LET state == IF remote[f] = "big" THEN "big idle" ELSE "idle"
          IN  /\ remote' = [remote EXCEPT ![f] = state]
              /\ fromTd' = [fromTd EXCEPT ![f] = Append(@, Report("update", state))]
     ELSE UNCHANGED <<fromTd, remote>>
  /\ UNCHANGED <<listeners, started>>

\* A download ends, fails, or turns out to be too big.
TdDownloads(f) ==
  /\ remote[f] \in Active
  /\ \E state \in (IF remote[f] = "big" THEN {"big idle"} ELSE {"done", "idle", "big"}) :
       /\ remote' = [remote EXCEPT ![f] = state]
       /\ fromTd' = [fromTd EXCEPT ![f] = Append(@, Report("update", state))]
  /\ UNCHANGED <<listeners, started, toTd>>

(***************************************************************************)
(* Properties.                                                             *)
(***************************************************************************)
\* Whoever listens to a file will hear of it.  Either the answer to a request is still to
\* come, or the download was seen to begin and runs, or the update about its end is on its
\* way: no order of answers and updates leaves a query without an end
\* (Client.cpp:9364-9389).
ListenersServed ==
  \A f \in File : listeners[f] # <<>> =>
    \/ \E i \in DOMAIN toTd[f] : toTd[f][i] = "download"
    \/ \E i \in DOMAIN fromTd[f] : fromTd[f][i].kind \in {"answer", "error"}
    \/ f \in started /\ (\/ remote[f] \in Active
                         \/ \E i \in DOMAIN fromTd[f] : EndsDownload(fromTd[f][i].state, TRUE))

=============================================================================
