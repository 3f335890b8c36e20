---------------------------- MODULE MCFileServer ----------------------------
(* FileServer with one directory, its index and one generated name.         *)
EXTENDS FileServer, TLC

CONSTANTS index, generated, directory, orphan, long

MCFiles == {index, generated}
MCIndex == [d \in {directory} |-> index]

Both == {"Content-Type", "Content-Length"}
Message(method, path, headers, length) ==
  [method |-> method, path |-> path, headers |-> headers, length |-> length]

CONSTANTS any, writer, reader

Puts == {Message("POST", directory, Both, 1), Message("POST", index, Both, 1)}
Gets == {Message("GET", directory, {}, 0), Message("GET", generated, {}, 0)}
Others ==
  {Message("HEAD", index, {}, 0), Message("OTHER", index, {}, 0),
   Message("GET", long, {}, 0),
   Message("POST", orphan, Both, 1), Message("POST", index, {}, 1),
   Message("POST", index, Both, 0)}

MCConnections == {any, writer, reader}
MCRequests == [c \in MCConnections |->
  CASE c = any -> Puts \cup Gets \cup Others
  [] c = writer -> Puts
  [] c = reader -> {Message("GET", directory, {}, 0)}]
=============================================================================
