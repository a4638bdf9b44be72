--------------------------- MODULE MCQmlAVPlayer ---------------------------
(***************************************************************************)
(* QmlAVPlayer for TLC's liveness runs: QML sets the properties that do not *)
(* concern liveness (muted, autoLoad) before the component is complete, as *)
(* Player.qml does, and leaves them alone afterwards.                      *)
(***************************************************************************)
EXTENDS QmlAVPlayer

PlayerQml ==
    /\ player'.m_muted = player.m_muted
    /\ player.m_complete => player'.m_autoLoad = player.m_autoLoad

PlayerQmlSpec == Init /\ [][Next /\ PlayerQml]_vars /\ Fairness
=============================================================================
