-------------------------- MODULE MCKeyboardDevice --------------------------
EXTENDS KeyboardDevice

CONSTANTS LeftDown, RightDown, LeftUp, RightUp

MCSideOf == [code \in {LeftDown, RightDown, LeftUp, RightUp} |->
               IF code \in {LeftDown, LeftUp} THEN "left" ELSE "right"]
=============================================================================
