----------------------------- MODULE MCUiServer -----------------------------
(* Values for the model checker: an interface with one button per action,  *)
(* each with a result of its own.                                          *)
EXTENDS UiServer

Symmetry == Permutations(Shells)

TodoButtons == {"add", "toggle", "delete"}
TodoActions == [b \in TodoButtons |->
                  CASE b = "add" -> "add_todo" [] b = "toggle" -> "toggle_todo"
                    [] OTHER -> "delete_todo"]
TodoResults == [b \in TodoButtons |->
                  CASE b = "add" -> "last" [] b = "toggle" -> "todos" [] OTHER -> NoBinding]
=============================================================================
