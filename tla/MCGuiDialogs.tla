----------------------------- MODULE MCGuiDialogs -----------------------------
(* A small session for TLC: texts that every format must treat with care. *)
EXTENDS GuiDialogs

MCEvents ==
  {<< <<"quote", "comma">>, <<"backslash", "n">> >>,
   << <<"backslash", "quote">>, <<>> >>,
   << <<"n">>, <<"break", "quote", "quote">> >>}

Path(name, extension) == [name |-> name, extension |-> extension]
MCPaths == {DefaultPath, Path("notes", ""), Path("notes", ".log"), Path("longest", ".csv")}
MCOldFiles == {Path("notes", ".csv"), Path("notes", ".log")}
===============================================================================
