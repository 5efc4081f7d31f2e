------------------------------ MODULE DaemonMC ------------------------------
(* Parts of the daemon side by side: the terminal interface, the data       *)
(* directory, media, legacy visibility, the Google connection, the threads  *)
(* of a phone that is replaced, and the processes that serve.  A behaviour  *)
(* is about one of them; they share no state, and those that it is not      *)
(* about stay where they begin.                                             *)
EXTENDS Tui, DataDir, Media, Projector, GoogleSession, IdSpace, ServeRun

CONSTANTS a, s,      \* a conversation of a phone's river, and a Slack channel
          m1, m2,    \* attachments
          dan, eve, both,    \* threads with one, with the other and with both
          About      \* the parts looked at

VARIABLE about    \* what the behaviour is about

StoredFrom == a :> 3 @@ s :> 1
StoredTo   == a :> 4 @@ s :> 2
\* Two attachments of one platform file, which a later frame may give another.
FileOf  == m1 :> "r1" @@ m2 :> "r1"
BytesOf == "r1" :> "x" @@ "r3" :> "y"

MembersOf == dan :> {"dan"} @@ eve :> {"eve"} @@ both :> {"dan", "eve"}
\* Two texts of the threads of two, one of the user, one into the group.
TextsOf == 1..4
ThreadsOf == 1 :> dan @@ 2 :> eve @@ 3 :> dan @@ 4 :> both
AuthorsOf == 1 :> "dan" @@ 2 :> "eve" @@ 3 :> "me" @@ 4 :> "eve"

DaemonInit ==
    /\ about \in About
    /\ TuiInit /\ DirInit /\ MediaInit /\ ProjectorInit /\ SessionInit /\ SpaceInit /\ ServeInit
    /\ about # "serve" => v2mode = "primary" /\ v2there
    /\ about # "idspace" => worker = "current"
DaemonNext ==
    \/ /\ about = "tui" /\ TuiNext
       /\ UNCHANGED <<about, dirVars, mediaVars, projectorVars, sessionVars, spaceVars, serveVars>>
    \/ /\ about = "directory" /\ DirNext
       /\ UNCHANGED <<about, tuiVars, mediaVars, projectorVars, sessionVars, spaceVars, serveVars>>
    \/ /\ about = "media" /\ MediaNext
       /\ UNCHANGED <<about, tuiVars, dirVars, projectorVars, sessionVars, spaceVars, serveVars>>
    \/ /\ about = "projector" /\ ProjectorNext
       /\ UNCHANGED <<about, tuiVars, dirVars, mediaVars, sessionVars, spaceVars, serveVars>>
    \/ /\ about = "google" /\ SessionNext
       /\ UNCHANGED <<about, tuiVars, dirVars, mediaVars, projectorVars, spaceVars, serveVars>>
    \/ /\ about = "idspace" /\ SpaceNext
       /\ UNCHANGED <<about, tuiVars, dirVars, mediaVars, projectorVars, sessionVars, serveVars>>
    \/ /\ about = "serve" /\ ServeNext
       /\ UNCHANGED <<about, tuiVars, dirVars, mediaVars, projectorVars, sessionVars, spaceVars>>
DaemonVars == <<about, tuiVars, dirVars, mediaVars, projectorVars, sessionVars,
                spaceVars, serveVars>>
DaemonSpec == DaemonInit /\ [][DaemonNext]_DaemonVars

\* Every part keeps its types.
DaemonTypeOK == TuiTypeOK /\ DirTypeOK /\ MediaTypeOK /\ ProjectorTypeOK
                /\ SessionTypeOK /\ SpaceTypeOK /\ ServeTypeOK
=============================================================================
