---------------------------- MODULE AzkabanClient ----------------------------
(***************************************************************************)
(* build_project of the Azkaban command line client, which uploads the     *)
(* archive it has built and, with --create, creates the project and tries  *)
(* again if there is none.  Several clients may be at it, for the same     *)
(* project, while users of the server create and delete it.                *)
(* (upload_project is not among the commands that the client accepts.)     *)
(***************************************************************************)
CONSTANT Clients

\* No archive is taken for a project without one.
ASSUME ClientsAssumption == Clients \cap {"missing", "empty"} = {}

VARIABLES
    project,    \* the server's project: missing, empty, or whose archive it has
    azcpc,      \* where each client is in its loop
    request,    \* its --create, and whether the server accepts its archive
    error,      \* the error its loop has ended with
    created,    \* history: clients that have created the project
    meddled     \* history: users have created or deleted it
clivars == <<project, azcpc, request, error, created, meddled>>

Ended == {"done", "failed"}
Requests == [create : BOOLEAN, good : BOOLEAN]

CliTypeOK ==
    /\ project \in {"missing", "empty"} \cup Clients
    /\ azcpc \in [Clients -> {"upload", "create"} \cup Ended]
    /\ request \in [Clients -> Requests]
    /\ error \in [Clients -> {"none", "missing", "refused", "exists", "fault"}]
    /\ \A c \in Clients : azcpc[c] = "failed" <=> error[c] # "none"
    /\ created \subseteq Clients /\ meddled \in BOOLEAN

CliInit ==
    /\ project \in {"missing", "empty"}
    /\ azcpc = [c \in Clients |-> "upload"]
    /\ request \in [Clients -> Requests]
    /\ error = [c \in Clients |-> "none"]
    /\ created = {} /\ meddled = FALSE

Fail(c, e) ==
    /\ azcpc' = [azcpc EXCEPT ![c] = "failed"]
    /\ error' = [error EXCEPT ![c] = e]

GoesTo(c, step) ==
    /\ azcpc' = [azcpc EXCEPT ![c] = step]
    /\ UNCHANGED error

-----------------------------------------------------------------------------
\* (variants with a mistake: the project is created whatever the error was; it
\* is never created; an error that is not about a missing project is not
\* raised again)
CatchAll(c, e) == IF request[c].create THEN GoesTo(c, "create") ELSE Fail(c, e)
CatchNothing(c, e) == Fail(c, e)
CatchSilently(c, e) ==
    GoesTo(c, IF request[c].create /\ e = "missing" THEN "create" ELSE "upload")

\* What the client does about an AzkabanError of an upload: it reads the
\* message.
Catch(c, e) ==
    IF request[c].create /\ e = "missing"
    THEN GoesTo(c, "create")
    ELSE Fail(c, e)

Upload(c) ==
    /\ azcpc[c] = "upload"
    /\ IF project # "missing" /\ request[c].good
       THEN project' = c /\ GoesTo(c, "done")
       ELSE /\ Catch(c, IF project = "missing" THEN "missing" ELSE "refused")
            /\ UNCHANGED project
    /\ UNCHANGED <<request, created, meddled>>

\* create_project is outside of the try: its error ends the client, and is the
\* one that is shown.
Create(c) ==
    /\ azcpc[c] = "create"
    /\ IF project = "missing"
       THEN /\ project' = "empty"
            /\ created' = created \cup {c}
            /\ GoesTo(c, "upload")
       ELSE Fail(c, "exists") /\ UNCHANGED <<project, created>>
    /\ UNCHANGED <<request, meddled>>

\* The server cannot be reached, or the session has expired, or the server
\* does as it is asked after the client has given up.
RequestFails(c) ==
    /\ \/ /\ azcpc[c] = "upload"
          /\ Catch(c, "fault")
          /\ \/ UNCHANGED project
             \/ project # "missing" /\ request[c].good /\ project' = c
          /\ UNCHANGED created
       \/ /\ azcpc[c] = "create"
          /\ Fail(c, "fault")
          /\ \/ UNCHANGED <<project, created>>
             \/ project = "missing" /\ project' = "empty" /\ created' = created \cup {c}
    /\ UNCHANGED <<request, meddled>>

UsersMove ==
    /\ project' = IF project = "missing" THEN "empty" ELSE "missing"
    /\ meddled' = TRUE
    /\ UNCHANGED <<azcpc, request, error, created>>

ClientStep(c) == Upload(c) \/ Create(c) \/ RequestFails(c)

CliNext == (\E c \in Clients : ClientStep(c)) \/ UsersMove

\* A client that is running goes on; the server answers or the request fails.
CliFairness == \A c \in Clients : WF_clivars(ClientStep(c))

CliSpec == CliInit /\ [][CliNext]_clivars /\ CliFairness

-----------------------------------------------------------------------------
\* The loop of build_project ends, with --create as well, and with an archive
\* that is never accepted.  Only deletions without end keep a client in it.
UploadEnds ==
    \A c \in Clients : <>(azcpc[c] \in Ended) \/ []<>(project = "missing")

\* The clients that have created the project and went on to their uploads.
Winners == {d \in created : azcpc[d] \in {"upload", "done"} \/ error[d] \in {"refused", "fault"}}

\* Another client was faster, and has not been beaten itself.
Beaten(c) == error[c] = "exists" /\ (meddled \/ Winners \ {c} # {})

\* --create: "Create the project if it does not exist" (line 48).  A build that
\* has it and an archive the server accepts is uploaded, unless a request
\* fails, or it has found the project missing together with another client:
\* the slower one fails, although the project is there, and never both.
CreateThenUpload ==
    \A c \in Clients :
        (azcpc[c] = "failed" /\ request[c].create /\ request[c].good) =>
            error[c] = "fault" \/ Beaten(c)

\* A build shows the error that has ended it: that the project exists is never
\* the answer to an archive that is refused or a request that fails, but to a
\* project that another client, or a user, has created between the two
\* requests.
BuildErrorIsReal ==
    \A c \in Clients : error[c] = "exists" => request[c].create /\ Beaten(c)
=============================================================================
