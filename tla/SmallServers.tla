------------------------------ MODULE SmallServers ------------------------------
(* Five programs, one after the other: a behaviour is one program's, the       *)
(* others stay in an initial state of theirs.                                  *)
EXTENDS Integers, FiniteSets, Sequences

CONSTANTS Fd, Listener, MaxHandled, Matrix,                         \* of MatrixServer
          Writer, Paragraph, Drafts, PatLen, MaxLine, Depths, Numbers, MaxEdits, \* of TextEditor
          User, Student, Inserted, FileName, Database, Tables, Criteria, MaxUser, MaxQueries, \* of StudentBuffers
          Talker, Name, NameOf, MaxSent,                            \* of Chat
          Editor, Nobody, Block, Texts, Words, Sizes, Blocks, MaxAsked \* of TextServer

VARIABLES program,
          mUp, time_to_stop, mData, mFile, clients, rfds, it, pending, conn, message, handled, stored,
          eUp, text, eFile, eState, extra, deep, wrote, torn, edits,
          bUp, users, copied, buffer, files, pid, greeting, hung, queries,
          cUp, Users, cState, toServer, ending, sent, heard,
          tUp, tHung, reading, tData, tClient, asks, left, answer, asked

mvars == << mUp, time_to_stop, mData, mFile, clients, rfds, it, pending, conn, message, handled, stored >>
evars == << eUp, text, eFile, eState, extra, deep, wrote, torn, edits >>
bvars == << bUp, users, copied, buffer, files, pid, greeting, hung, queries >>
cvars == << cUp, Users, cState, toServer, ending, sent, heard >>
tvars == << tUp, tHung, reading, tData, tClient, asks, left, answer, asked >>
vars == << program, mvars, evars, bvars, cvars, tvars >>

-------------------------------------------------------------------------------
M == INSTANCE MatrixServer WITH up <- mUp, data <- mData, file <- mFile, Sent <- Matrix

E == INSTANCE TextEditor WITH up <- eUp, file <- eFile, state <- eState,
  Client <- Writer, Files <- Drafts, New <- Paragraph

B == INSTANCE StudentBuffers WITH up <- bUp, Client <- User, Files <- Tables

C == INSTANCE Chat WITH up <- cUp, state <- cState, Client <- Talker

D == INSTANCE TextServer WITH up <- tUp, hung <- tHung, data <- tData, client <- tClient,
  Client <- Editor, New <- Block, Numbers <- Blocks, Depths <- Sizes

(* What each of the five asks of its constants.                                *)
ASSUME SmallAssumption ==
  M!MatrixAssumption /\ E!EditorAssumption /\ B!BuffersAssumption /\ C!ChatAssumption /\ D!TextAssumption

(* The program that does not run has one initial state.                        *)
Init ==
  /\ M!Init /\ E!Init /\ B!Init /\ C!Init /\ D!Init
  /\ program \in {"Vylegzhanin_FE", "AntonianGV", "PoroshinBA", "Romanova_EA", "SivolapNN"}
  /\ program = "AntonianGV" \/ eFile = CHOOSE f \in Drafts : TRUE
  /\ program = "PoroshinBA" \/ files = CHOOSE f \in Tables : TRUE
  /\ program = "SivolapNN" \/ tData = << >>

Next ==
  /\ program' = program
  /\ \/ program = "Vylegzhanin_FE" /\ M!Next /\ UNCHANGED << evars, bvars, cvars, tvars >>
     \/ program = "AntonianGV" /\ E!Next /\ UNCHANGED << mvars, bvars, cvars, tvars >>
     \/ program = "PoroshinBA" /\ B!Next /\ UNCHANGED << mvars, evars, cvars, tvars >>
     \/ program = "Romanova_EA" /\ C!Next /\ UNCHANGED << mvars, evars, bvars, tvars >>
     \/ program = "SivolapNN" /\ D!Next /\ UNCHANGED << mvars, evars, bvars, cvars >>

Spec == Init /\ [][Next]_vars

-------------------------------------------------------------------------------
(* The properties of the five modules.                                         *)
MatricesKept == M!MatricesKept
InStep == E!InStep
QuitComesBack == E!QuitComesBack
SelectIsFilter == B!SelectIsFilter
OneOfEachName == C!OneOfEachName
AsAsked == D!AsAsked
================================================================================
