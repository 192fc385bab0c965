------------------------------ MODULE MCImages ------------------------------
(***************************************************************************)
(* Files for the model checker: position-independent programs with and     *)
(* without an interpreter, a fixed one, one whose segments share a page,   *)
(* a C library and a text file.                                            *)
(***************************************************************************)
EXTENDS Images

Load(vaddr, offset, filesz, memsz) ==
  [type |-> "load", vaddr |-> vaddr, offset |-> offset, filesz |-> filesz, memsz |-> memsz]
Other(type, vaddr) ==
  [type |-> type, vaddr |-> vaddr, offset |-> 0, filesz |-> 0, memsz |-> 0]
Function(value, size, name) == [value |-> value, size |-> size, name |-> name]

Text == [elf |-> FALSE, type |-> "none", headers |-> <<>>, phoff |-> 0, size |-> 3, entry |-> 0,
         interpreter |-> NoPath, kind |-> "", symbols |-> {}]

\* Code and, at another offset of its page than in the file, data with a bss.
Pie == [Text EXCEPT !.elf = TRUE, !.type = "dyn", !.phoff = 1, !.size = 4, !.entry = 1,
                    !.headers = <<Load(0, 0, 2, 2), Load(3, 3, 1, 2)>>,
                    !.symbols = {Function(0, 0, "imported"), Function(1, 3, "outer"), Function(3, 0, "inner")}]
Dynamic == [Pie EXCEPT !.headers = <<Other("phdr", 1), Other("interp", 0), Other("stack", 0)>> \o @, !.interpreter = "ld"]
Static == [Pie EXCEPT !.type = "exec", !.entry = 3,
                      !.headers = <<Load(2, 0, 2, 2), Load(5, 3, 1, 2)>>,
                      !.symbols = {Function(3, 1, "main")}]
Packed == [Pie EXCEPT !.headers = <<Load(0, 0, 3, 3), Load(3, 3, 1, 2)>>]
Loader == [Pie EXCEPT !.headers = <<Load(0, 0, 3, 3)>>, !.symbols = {Function(1, 1, "start")}]
Libc == [Pie EXCEPT !.headers = <<Load(0, 0, 4, 4)>>, !.kind = "libc",
                    !.symbols = {Function(1, 2, "malloc"), Function(2, 1, "free")}]
AllFiles == [path \in {"pie", "dynamic", "static", "packed", "ld", "libc", "text"} |->
               CASE path = "pie" -> Pie [] path = "dynamic" -> Dynamic [] path = "static" -> Static
                 [] path = "packed" -> Packed [] path = "ld" -> Loader
                 [] path = "libc" -> Libc [] path = "text" -> Text]

\* Memory matters to the properties only as long as it is orderly, and the registry does
\* not depend on it: states after that are checked and not explored further.
WhileOrderly == orderly
=============================================================================
