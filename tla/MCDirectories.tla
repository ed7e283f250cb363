--------------------------- MODULE MCDirectories ---------------------------
(* Instances of Directories for TLC. *)
EXTENDS Directories

Anna == [name |-> "anna", groups |-> {0}]
Bert == [name |-> "bert", groups |-> {1}]

(* "/" is the volume; "/a" is mapped to the directory b of the volume, so that
   the same files are reached on two paths with different rights. *)
RootAlias == [alias |-> Root, path |-> <<"w">>, read |-> {0, 1}, write |-> {1},
              delete |-> {1}, subdirs |-> {1}]
UploadAlias == [alias |-> <<"a">>, path |-> <<"w", "b">>, read |-> {0}, write |-> {0, 1},
                delete |-> {}, subdirs |-> {0}]
ClosedAlias == [UploadAlias EXCEPT !.read = {}, !.write = {1}]
VirtualAlias == [RootAlias EXCEPT !.path = <<>>]

SomeUserLists == {<<Anna, Bert>>, <<Bert, Anna>>, <<Bert>>}
SomeAliasLists == {<<RootAlias, UploadAlias>>, <<UploadAlias, RootAlias>>,
                   <<VirtualAlias, ClosedAlias, UploadAlias>>, <<UploadAlias>>}
SomeArgs == {Here(<<"a">>), Here(<<"b">>), Colon, Absolute(<<"a">>), Absolute(<<"b", "b">>)}
SomePlaces == {<<"w", "a">>, <<"w", "b">>, <<"w", "b", "b">>, <<"w", "b", "a">>}
TheVolume == {<<"w">>, <<"w", "b">>}
=============================================================================
