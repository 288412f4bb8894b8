------------------------------- MODULE MCFrame -------------------------------
\* Values of the constants of Frame for TLC.
EXTENDS Frame, TLC

\* Two calls of the page, to a method that is handed on and to one that is not, and
\* one of the frame.
MCCalls == {"buy", "send", "eth"}
MCCaller == [c \in MCCalls |-> IF c = "eth" THEN "frame" ELSE "page"]
MCMethod == [c \in MCCalls |-> c]
MCOrigin == [c \in MCCalls |-> IF c = "eth" THEN "frame" ELSE "site"]
MCWhitelist == [l \in {"page", "frame"} |-> IF l = "page" THEN {"site", "frame"} ELSE {"frame"}]

Action(type, payload) == [type |-> type, payload |-> payload]
Toggle(displayed, performer) == [isFrameDisplayed |-> displayed, forceRedirect |-> None,
                                 isPerformer |-> performer]
MCDispatches ==
  {Action("setWallet", "wallet"), Action("setWallet", None),
   Action("setDidStoreMnemonic", None), Action("setCurrentAuthToken", "token"),
   Action("toggleFrame", Toggle(TRUE, TRUE)),
   Action("toggleFrame", Toggle(FALSE, FALSE)),
   Action("setFeatureFlags", [bootySupport |-> FALSE]),
   Action("setChannel", None), Action("setMigrationState", [state |-> "MIGRATING",
                                                            currentMigration |-> "open_channel"])}

Item(type, key, incoming, wei, token) ==
  [type |-> type, key |-> key, incoming |-> incoming, wei |-> wei, token |-> token]
MCItems == {Item("TIP", "a", FALSE, 1, 0), Item("TIP", "a", TRUE, 1, 1),
            Item("TIP", "b", FALSE, 0, 1), Item("TIP", "a", FALSE, 0, 0),
            Item("PURCHASE", "a", FALSE, 1, 0), Item("FEE", "a", FALSE, 1, 0)}
==============================================================================
